---- MODULE Spec2Model ----
(***************************************************************************)
(* TextStimulationApp: the TextDisplay component (text loading, segment    *)
(* parsing, user-paced advancement, audio unlock / resolution / preload /  *)
(* playback) together with the part of App that mounts and unmounts it.    *)
(*                                                                         *)
(* Strings are sequences of one-character strings.  The characters "LF"    *)
(* and "CR" stand for the line feed and the carriage return.  Indices of   *)
(* the source (0-based) are kept 0-based; Seq access adds one.             *)
(***************************************************************************)
EXTENDS Integers, Sequences, FiniteSets, TLC

\* ------------------------------------------------------------------ bounds
\* longest file content of the parser specification, in characters
MaxTextLen == 5
\* longest text and longest furigana of the furigana specification, in characters
MaxRubyTextLen == 3
MaxFuriganaLen == 4
\* longest story file name and longest voice file name (the supported extensions
\* apart) of the resolution specification, in characters
MaxStoryLen == 3
MaxRefLen == 3
\* as MaxLoad, for the texts of the sessions specification
MaxSessionsLoad == 4
\* largest load of a file content of the session specifications: its rows, a row
\* that names a voice file counted twice
MaxLoad == 4
\* last instant of the clock read by Date.now()
MaxTime == 2

\* ----------------------------------------------------------- JS strings
LF == "LF"
CR == "CR"
SP == " "
COMMA == ","

\* String.prototype.trim() strips these (of the characters modelled)
IsWhitespace(c) == c \in {SP, LF, CR}

RECURSIVE TrimStart(_)
TrimStart(s) ==
  IF s = <<>> THEN <<>>
  ELSE IF IsWhitespace(Head(s)) THEN TrimStart(Tail(s)) ELSE s

RECURSIVE TrimEnd(_)
TrimEnd(s) ==
  IF s = <<>> THEN <<>>
  ELSE IF IsWhitespace(s[Len(s)]) THEN TrimEnd(SubSeq(s, 1, Len(s) - 1)) ELSE s

Trim(s) == TrimEnd(TrimStart(s))

\* s.indexOf(c, from): the least 0-based position >= from holding c, or -1
RECURSIVE IndexOf(_, _, _)
IndexOf(s, c, from) ==
  IF from >= Len(s) THEN -1
  ELSE IF s[from + 1] = c THEN from ELSE IndexOf(s, c, from + 1)

\* s.substring(a, b) for 0 <= a <= b <= length
Substring(s, a, b) == SubSeq(s, a + 1, b)

\* s.substring(a)
SubstringFrom(s, a) == SubSeq(s, a + 1, Len(s))

\* s.split(c): the pieces between the occurrences of c (always at least one)
RECURSIVE Split(_, _)
Split(s, c) ==
  LET i == IndexOf(s, c, 0)
  IN  IF i < 0 THEN <<s>>
      ELSE <<Substring(s, 0, i)>> \o Split(SubstringFrom(s, i + 1), c)

\* line.replace(/\r$/, '')
StripCR(line) ==
  IF line # <<>> /\ line[Len(line)] = CR THEN SubSeq(line, 1, Len(line) - 1) ELSE line

\* text.split('\n').map(line => line.replace(/\r$/, ''))
Rows(text) == LET raw == Split(text, LF) IN [k \in 1..Len(raw) |-> StripCR(raw[k])]

\* ----------------------------------------------------------- segments
\* an optional value: <<>> is undefined, <<v>> is v
Undefined == <<>>
Some(v) == <<v>>

LineBreakSegment ==
  [voiceFile |-> <<>>, text |-> <<>>, furigana |-> Undefined, isLineBreak |-> TRUE]

\* mutation of RowFields: the row is cut at every comma and the third piece
\* alone is the furigana
RowFieldsEveryComma(row) ==
  LET f == Split(row, COMMA)
  IN  IF Len(f) = 1
        THEN [voiceFile |-> Trim(row), text |-> Trim(row), furigana |-> Undefined]
      ELSE IF Len(f) = 2
        THEN [voiceFile |-> Trim(f[1]), text |-> Trim(f[2]), furigana |-> Undefined]
      ELSE [voiceFile |-> Trim(f[1]), text |-> Trim(f[2]), furigana |-> Some(Trim(f[3]))]

\* the three fields a non-blank row is cut into (before the empty-text test)
RowFields(row) ==
  LET firstCommaIndex == IndexOf(row, COMMA, 0)
      secondCommaIndex ==
        IF firstCommaIndex >= 0 THEN IndexOf(row, COMMA, firstCommaIndex + 1) ELSE -1
  IN  IF firstCommaIndex < 0
        THEN [voiceFile |-> Trim(row), text |-> Trim(row), furigana |-> Undefined]
      ELSE IF secondCommaIndex < 0
        THEN [voiceFile |-> Trim(Substring(row, 0, firstCommaIndex)),
              text      |-> Trim(SubstringFrom(row, firstCommaIndex + 1)),
              furigana  |-> Undefined]
      ELSE [voiceFile |-> Trim(Substring(row, 0, firstCommaIndex)),
            text      |-> Trim(Substring(row, firstCommaIndex + 1, secondCommaIndex)),
            furigana  |-> Some(Trim(SubstringFrom(row, secondCommaIndex + 1)))]

\* mutation of ParseRow: the test of line 232 is missing
ParseRowKeepEmptyText(row) ==
  IF Trim(row) = <<>> THEN <<LineBreakSegment>>
  ELSE LET f == RowFields(row)
       IN  <<[voiceFile   |-> f.voiceFile,
              text        |-> f.text,
              furigana    |-> IF f.furigana # Undefined /\ Len(f.furigana[1]) > 0
                                THEN f.furigana ELSE Undefined,
              isLineBreak |-> FALSE]>>

\* the segments one row appends to parsedSegments (none or one)
ParseRow(row) ==
  IF Trim(row) = <<>> THEN <<LineBreakSegment>>
  ELSE LET f == RowFields(row)
       IN  IF Len(f.text) > 0
             THEN <<[voiceFile   |-> f.voiceFile,
                     text        |-> f.text,
                     furigana    |-> IF f.furigana # Undefined /\ Len(f.furigana[1]) > 0
                                       THEN f.furigana ELSE Undefined,
                     isLineBreak |-> FALSE]>>
             ELSE <<>>

RECURSIVE ParseRows(_)
ParseRows(rows) ==
  IF rows = <<>> THEN <<>> ELSE ParseRow(Head(rows)) \o ParseRows(Tail(rows))

\* mutation of ParseText: the throw of line 271 is missing
ParseTextWithoutLengthCheck(text) ==
  IF Trim(text) = <<>> THEN [ok |-> FALSE, parsedSegments |-> <<>>]
  ELSE [ok |-> TRUE, parsedSegments |-> ParseRows(Rows(text))]

\* the .then(text => ...) step up to the two throws: the parsed sequence, or
\* <<>> with ok = FALSE when the content is empty or nothing was parsed
ParseText(text) ==
  IF Trim(text) = <<>> THEN [ok |-> FALSE, parsedSegments |-> <<>>]
  ELSE LET parsedSegments == ParseRows(Rows(text))
       IN  IF Len(parsedSegments) = 0
             THEN [ok |-> FALSE, parsedSegments |-> <<>>]
             ELSE [ok |-> TRUE, parsedSegments |-> parsedSegments]

\* the while loop of the load: the first index that is not a line break
RECURSIVE FirstNonLineBreakFrom(_, _)
FirstNonLineBreakFrom(segs, i) ==
  IF i < Len(segs) /\ segs[i + 1].isLineBreak
    THEN FirstNonLineBreakFrom(segs, i + 1) ELSE i

ErrorSegment ==
  [voiceFile |-> <<>>, text |-> <<"E">>, furigana |-> Undefined, isLineBreak |-> FALSE]

\* ------------------------------------------------- audio path candidates
DOT == "."
SLASH == "/"
IsDigit(c) == c \in {"0", "1", "2", "3", "4", "5", "6", "7", "8", "9"}

\* where /\.[^/.]+$/ matches in s (1-based position of the dot), or 0
ExtensionStart(s) ==
  LET dots == {k \in 1..Len(s) : s[k] = DOT /\ k < Len(s)
                                 /\ \A j \in (k + 1)..Len(s) : s[j] \notin {DOT, SLASH}}
  IN  IF dots = {} THEN 0 ELSE CHOOSE k \in dots : TRUE

\* /\.[^/.]+$/.test(s)
HasExtension(s) == ExtensionStart(s) # 0

\* s.replace(/\.[^/.]+$/, '')
StripExtension(s) == IF HasExtension(s) THEN SubSeq(s, 1, ExtensionStart(s) - 1) ELSE s

RECURSIVE LeadingDigits(_)
LeadingDigits(s) ==
  IF s # <<>> /\ IsDigit(Head(s)) THEN 1 + LeadingDigits(Tail(s)) ELSE 0

\* s.replace(/^[0-9]+_?/, '')
StripNumericPrefix(s) ==
  LET d == LeadingDigits(s)
  IN  IF d = 0 THEN s
      ELSE IF d < Len(s) /\ s[d + 1] = "_" THEN SubstringFrom(s, d + 1)
      ELSE SubstringFrom(s, d)

\* mutation of Dedup: every occurrence is kept
KeepDuplicates(list) == list

\* Array.from(new Set(list)): first occurrences, in order
RECURSIVE Dedup(_)
Dedup(list) ==
  IF list = <<>> THEN <<>>
  ELSE LET init == Dedup(SubSeq(list, 1, Len(list) - 1))
           last == list[Len(list)]
       IN  IF \E k \in 1..Len(init) : init[k] = last THEN init ELSE init \o <<last>>

NonEmpty(s) == s # <<>>

StoryDirCandidates(settings) ==
  LET storyBaseName == StripExtension(settings.storyFilename)
      storyNameWithoutPrefix == StripNumericPrefix(storyBaseName)
  IN  Dedup(SelectSeq(<<storyBaseName, storyNameWithoutPrefix>>, NonEmpty))

WAV == <<DOT, "w", "a", "v">>
MP3 == <<DOT, "m", "p", "3">>

\* fileCandidates after the (stable) extension-first sort
SortedFileCandidates(voiceFile) ==
  LET rawVoiceFile == Trim(voiceFile)
      hasExtension == HasExtension(rawVoiceFile)
      baseVoiceName == IF hasExtension THEN StripExtension(rawVoiceFile) ELSE rawVoiceFile
      \* a null entry is modelled as the empty name, removed by filter(Boolean)
      list == << IF hasExtension THEN rawVoiceFile ELSE <<>>,
                 IF ~hasExtension /\ baseVoiceName # <<>> THEN baseVoiceName \o WAV ELSE <<>>,
                 IF ~hasExtension /\ baseVoiceName # <<>> THEN baseVoiceName \o MP3 ELSE <<>>,
                 IF baseVoiceName # <<>> /\ baseVoiceName # rawVoiceFile
                   THEN baseVoiceName \o WAV ELSE <<>>,
                 IF baseVoiceName # <<>> /\ baseVoiceName # rawVoiceFile
                   THEN baseVoiceName \o MP3 ELSE <<>> >>
      fileCandidates == Dedup(SelectSeq(list, NonEmpty))
      NoExtension(s) == ~HasExtension(s)
  IN  SelectSeq(fileCandidates, HasExtension) \o SelectSeq(fileCandidates, NoExtension)

\* mutation of PairsOf: the loop over the files is the outer one
RECURSIVE PairsFilesOutermost(_, _)
PairsFilesOutermost(dirs, files) ==
  IF files = <<>> THEN <<>>
  ELSE [k \in 1..Len(dirs) |-> <<dirs[k], Head(files)>>] \o PairsFilesOutermost(dirs, Tail(files))

\* the probe order of resolveAudioPath: directories outermost.  A path is the
\* pair <<directory, file name>> (the percent-encoded URL built from it)
RECURSIVE PairsOf(_, _)
PairsOf(dirs, files) ==
  IF dirs = <<>> THEN <<>>
  ELSE [k \in 1..Len(files) |-> <<Head(dirs), files[k]>>] \o PairsOf(Tail(dirs), files)

AudioPathCandidates(voiceFile, settings) ==
  LET dirs == StoryDirCandidates(settings)
      files == SortedFileCandidates(voiceFile)
  IN  IF Len(files) = 0 \/ Len(dirs) = 0 THEN <<>> ELSE PairsOf(dirs, files)

\* ------------------------------------------------------------------ state
VARIABLES
  currentApp,                \* App: the screen shown; TextDisplay is mounted on "text"
  textAppSettings,           \* App: the settings handed to TextDisplay
  elapsedTime,               \* App: the time handed to the completion screen
  fileText,                  \* the content of the text asset on the server
  textFetch,                 \* "pending" while the fetch of the text asset is in flight
  earlierFetches,            \* the fetches of earlier load effects still in flight
  now,                       \* the clock behind Date.now()
  segments,                  \* TextDisplay state
  currentSegment,
  isLoading,
  errorMessage,
  currentSourceRef,          \* 0 is null; otherwise the play attempt whose source it is
  audioPathCacheRef,         \* the Map as a set of [index, path] entries
  fullTextStartTimeRef,      \* -1 is null
  audioContext,              \* module globals: "null", "suspended" or "running"
  isAudioContextInitialized,
  isAudioEnabled,
  audioBufferCache,          \* the paths that have a decoded buffer
  preload,                   \* the run of preload() of the current preload effect
  attempts                   \* the runs of playAudio(), in launch order

vars == <<currentApp, textAppSettings, elapsedTime, fileText, textFetch,
          earlierFetches, now,
          segments, currentSegment, isLoading, errorMessage, currentSourceRef,
          audioPathCacheRef, fullTextStartTimeRef, audioContext,
          isAudioContextInitialized, isAudioEnabled, audioBufferCache, preload,
          attempts>>

NoError == "null"
LoadFailedMessage == "load failed"
NoPath == <<>>

Mounted == currentApp = "text"

\* the audio side of the state as one value, so that a handler's chain of calls
\* composes; SetAudio assigns it back
Audio ==
  [attempts |-> attempts, ref |-> currentSourceRef, cache |-> audioPathCacheRef,
   preload |-> preload, bufs |-> audioBufferCache, ctx |-> audioContext,
   init |-> isAudioContextInitialized, enabled |-> isAudioEnabled]

\* a 5 second timer that fires when audio is enabled does nothing (line 94):
\* once audio is enabled the pending timers are dropped
DropTimers(m) ==
  IF ~m.enabled THEN m
  ELSE [m EXCEPT !.attempts = [a \in DOMAIN m.attempts |->
                                 [m.attempts[a] EXCEPT !.unTimer = FALSE]],
                 !.preload.unTimer = FALSE]

SetAudio(n) ==
  LET m == DropTimers(n) IN
  /\ attempts' = m.attempts
  /\ currentSourceRef' = m.ref
  /\ audioPathCacheRef' = m.cache
  /\ preload' = m.preload
  /\ audioBufferCache' = m.bufs
  /\ audioContext' = m.ctx
  /\ isAudioContextInitialized' = m.init
  /\ isAudioEnabled' = m.enabled

\* Map.get / Map.set / has on audioPathCacheRef
CacheHas(cache, i) == \E e \in cache : e.index = i
CacheGet(cache, i) == (CHOOSE e \in cache : e.index = i).path
CacheSet(cache, i, path) == {e \in cache : e.index # i} \cup {[index |-> i, path |-> path]}

\* ----------------------------------------------------------- enableAudio
\* initAudioContext(): created is what the constructor gives ("fail" when it throws)
\* mutation of InitAudioContext: the early return of line 24 is missing
InitAudioContextUnguarded(m, created) ==
  IF created = "fail" THEN [m EXCEPT !.init = FALSE]
  ELSE [m EXCEPT !.ctx = created, !.init = TRUE]

InitAudioContext(m, created) ==
  IF m.init THEN m
  ELSE IF created = "fail" THEN m
  ELSE [m EXCEPT !.ctx = created, !.init = TRUE]

\* enableAudio() up to the promise it returns: the state after the synchronous part
\* and the pending event of the new promise ("none" when it is already resolved)
EnableAudioContext(m, created) == IF m.enabled THEN m ELSE InitAudioContext(m, created)

\* mutation of EnableAudioEvent: the early return of line 42 is missing
EnableAudioEventWhenEnabled(m, created) ==
  IF EnableAudioContext(m, created).ctx = "suspended" THEN "resume" ELSE "primer"

EnableAudioEvent(m, created) ==
  IF m.enabled THEN "none"
  ELSE IF EnableAudioContext(m, created).ctx = "suspended" THEN "resume" ELSE "primer"

\* ----------------------------------------------------------- playAudio
\* currentSourceRef.current.stop(); currentSourceRef.current = null
StopCurrent(m) ==
  [m EXCEPT
     !.attempts = IF m.ref # 0 /\ m.attempts[m.ref].pc = "playing"
                    THEN [m.attempts EXCEPT ![m.ref].pc = "stopped"]
                    ELSE m.attempts,
     !.ref = 0]

\* mutation of PlayWithAudioElement: no element is created, the attempt just ends
SkipAudioElement(m, a, started) ==
  [m EXCEPT !.attempts[a].pc = "done", !.attempts[a].cand = 0,
            !.attempts[a].path = NoPath]

\* playWithAudioElement(audioPath): started tells whether audio.play() starts;
\* when it rejects, the error is logged and the attempt is over ("failed")
PlayWithAudioElement(m, a, started) ==
  [m EXCEPT !.attempts[a].pc = IF started THEN "element" ELSE "failed",
            !.attempts[a].cand = 0, !.attempts[a].path = NoPath]

\* source.start(0) on the decoded buffer
StartSource(m, a) ==
  [m EXCEPT !.attempts[a].pc = "playing", !.attempts[a].cand = 0,
            !.attempts[a].path = NoPath, !.ref = a]

\* playAudio from "AudioContextを使用して再生" on, with audioPath known
PlayWithPath(m, a, path, started) ==
  IF m.init /\ m.ctx # "null"
    THEN IF path \in m.bufs
           THEN StartSource(m, a)
           ELSE [m EXCEPT !.attempts[a].path = path, !.attempts[a].pc = "load"]
    ELSE PlayWithAudioElement(m, a, started)

\* playAudio after await enableAudio(): stop, look the path up, resolve on a miss
PlayAfterUnlock(m, a, started) ==
  LET m1 == StopCurrent(m)
      at == m1.attempts[a]
      cands == AudioPathCandidates(at.voiceFile, textAppSettings)
  IN  IF CacheHas(m1.cache, at.seg)
        THEN PlayWithPath(m1, a, CacheGet(m1.cache, at.seg), started)
      ELSE IF cands = <<>>
        THEN [m1 EXCEPT !.attempts[a].pc = "done"]
      ELSE [m1 EXCEPT !.attempts[a].pc = "probe", !.attempts[a].cand = 1]

\* resolveAudioPath moves on to the next candidate, or returns null
PlayProbeNext(m, a) ==
  LET at == m.attempts[a]
      cands == AudioPathCandidates(at.voiceFile, textAppSettings)
  IN  IF at.cand < Len(cands)
        THEN [m EXCEPT !.attempts[a].pc = "probe", !.attempts[a].cand = at.cand + 1]
        ELSE [m EXCEPT !.attempts[a].pc = "done", !.attempts[a].cand = 0]

\* resolveAudioPath returns the candidate: cache it and play it
PlayProbeAccept(m, a, started) ==
  LET at == m.attempts[a]
      path == AudioPathCandidates(at.voiceFile, textAppSettings)[at.cand]
  IN  PlayWithPath([m EXCEPT !.cache = CacheSet(m.cache, at.seg, path)], a, path, started)

\* the play effect (lines 576-667) for the segment at index cur
NewAttempt(seg, voiceFile, event) ==
  [seg |-> seg, voiceFile |-> voiceFile, pc |-> "unlock", cand |-> 0, path |-> NoPath,
   unEvt |-> event, unTimer |-> event # "none"]

PlayEffect(m, settings, segs, cur, created, started) ==
  IF settings.voiceMode # "voice-on" THEN StopCurrent(m)
  ELSE IF cur >= Len(segs) \/ segs[cur + 1].voiceFile = <<>> THEN StopCurrent(m)
  ELSE LET a == Len(m.attempts) + 1
           m1 == EnableAudioContext(m, created)
           m2 == [m1 EXCEPT !.attempts = Append(m.attempts,
                      NewAttempt(cur, segs[cur + 1].voiceFile, EnableAudioEvent(m, created)))]
       IN  IF m.enabled THEN PlayAfterUnlock(m2, a, started) ELSE m2

\* ----------------------------------------------------------- preload
NoPreload ==
  [pc |-> "none", i |-> 0, cand |-> 0, path |-> NoPath, disposed |-> FALSE,
   unEvt |-> "none", unTimer |-> FALSE]

\* the for loop of preload() from index i on, up to its next suspension: the check
\* of disposed, the segments without voiceFile, the start of resolveAudioPath
RECURSIVE PreloadIterate(_, _, _)
PreloadIterate(m, segs, i) ==
  IF i >= Len(segs) \/ m.preload.disposed
    THEN [m EXCEPT !.preload.pc = "done", !.preload.i = 0, !.preload.cand = 0,
                   !.preload.path = NoPath]
  ELSE IF segs[i + 1].voiceFile = <<>>
         \/ AudioPathCandidates(segs[i + 1].voiceFile, textAppSettings) = <<>>
    THEN PreloadIterate(m, segs, i + 1)
  ELSE [m EXCEPT !.preload.pc = "probe", !.preload.i = i, !.preload.cand = 1,
                 !.preload.path = NoPath]

\* mutation of PreloadProbeNext: a resolution that fails ends the loop
PreloadProbeNextOrStop(m, segs) ==
  LET cands == AudioPathCandidates(segs[m.preload.i + 1].voiceFile, textAppSettings)
  IN  IF m.preload.cand < Len(cands)
        THEN [m EXCEPT !.preload.pc = "probe", !.preload.cand = m.preload.cand + 1]
        ELSE PreloadIterate(m, segs, Len(segs))

\* resolveAudioPath inside preload moves on to the next candidate, or returns null
PreloadProbeNext(m, segs) ==
  LET cands == AudioPathCandidates(segs[m.preload.i + 1].voiceFile, textAppSettings)
  IN  IF m.preload.cand < Len(cands)
        THEN [m EXCEPT !.preload.pc = "probe", !.preload.cand = m.preload.cand + 1]
        ELSE PreloadIterate(m, segs, m.preload.i + 1)

\* mutation of PreloadProbeAccept: the path is cached whether disposed or not
PreloadProbeAcceptWhenDisposed(m, segs) ==
  LET i == m.preload.i
      path == AudioPathCandidates(segs[i + 1].voiceFile, textAppSettings)[m.preload.cand]
      m1 == [m EXCEPT !.cache = CacheSet(m.cache, i, path)]
  IN  IF path \in m1.bufs \/ m1.ctx = "null"
        THEN PreloadIterate(m1, segs, i + 1)
        ELSE [m1 EXCEPT !.preload.pc = "load", !.preload.path = path]

\* resolveAudioPath returns the candidate to preload: lines 344-354
PreloadProbeAccept(m, segs) ==
  LET i == m.preload.i
      path == AudioPathCandidates(segs[i + 1].voiceFile, textAppSettings)[m.preload.cand]
  IN  IF m.preload.disposed THEN PreloadIterate(m, segs, i + 1)
      ELSE LET m1 == [m EXCEPT !.cache = CacheSet(m.cache, i, path)]
           IN  IF path \in m1.bufs \/ m1.ctx = "null"
                 THEN PreloadIterate(m1, segs, i + 1)
                 ELSE [m1 EXCEPT !.preload.pc = "load", !.preload.path = path]

\* the preload effect (lines 321-361)
PreloadEffect(m, settings, segs, created) ==
  LET m0 == [m EXCEPT !.cache = {}]
  IN  IF settings.voiceMode # "voice-on" \/ Len(segs) = 0
        THEN [m0 EXCEPT !.preload = NoPreload]
      ELSE LET m1 == EnableAudioContext(m0, created)
               m2 == [m1 EXCEPT !.preload =
                        [NoPreload EXCEPT !.pc = "unlock",
                                          !.unEvt = EnableAudioEvent(m0, created),
                                          !.unTimer = ~m0.enabled]]
           IN  IF m0.enabled THEN PreloadIterate(m2, segs, 0) ELSE m2

\* the cleanup of the preload effect (lines 363-369); the effect that returned
\* early (line 325) has none
PreloadCleanup(m) ==
  IF m.preload.pc = "none" THEN m
  ELSE [m EXCEPT !.preload.disposed = TRUE, !.cache = {}]

\* mutation of UnmountCleanup: the decoded buffers are dropped with the session
UnmountDroppingBuffers(m) == [StopCurrent(m) EXCEPT !.bufs = {}]

\* the cleanup of the unmount effect (lines 306-315)
UnmountCleanup(m) == StopCurrent(m)

\* ------------------------------------------------------- inputs and Init
VoiceModes == {"voice-on", "voice-off", "full-text"}
ContextOutcomes == {"fail", "suspended", "running"}

\* the story of the session specifications: "s.t", with the voice directory "s"
SessionStory == <<"s", DOT, "t">>

\* the rows of the session specifications: a blank row, a row naming the voice
\* file "a", a row without a voice file, a row without text
SessionRows == {<<>>, <<"a">>, <<COMMA, "b">>, <<COMMA>>}

RECURSIVE TextsOfRows(_, _)
TextsOfRows(rows, n) ==
  IF n = 1 THEN rows
  ELSE {t \o <<LF>> \o r : t \in TextsOfRows(rows, n - 1), r \in rows}

\* the number of rows of a session text that name a voice file
RECURSIVE VoicedRows(_)
VoicedRows(rows) ==
  IF rows = <<>> THEN 0
  ELSE (IF Head(rows) = <<"a">> THEN 1 ELSE 0) + VoicedRows(Tail(rows))

SessionTexts ==
  {t \in UNION {TextsOfRows(SessionRows, n) : n \in 1..MaxLoad} :
     Len(Split(t, LF)) + VoicedRows(Split(t, LF)) <= MaxLoad}

\* mutation of StartTimeEffect: the reference is reset and never recorded
StartTimeNeverRecorded(settings, segs, loading, ref, clock) == -1

\* the start-time effect (lines 376-386)
StartTimeEffect(settings, segs, loading, ref, clock) ==
  IF settings.voiceMode = "full-text" /\ Len(segs) > 0 /\ ~loading
    THEN IF ref = -1 THEN clock ELSE ref
    ELSE -1

\* the module globals of a page that has not called enableAudio yet (lines 15-18)
FreshGlobals == [ctx |-> "null", init |-> FALSE, enabled |-> FALSE, bufs |-> {}]

\* TextDisplay as mounted by App after handleStartReading: first render done, the
\* effects run once (segments empty), the fetch of the text asset in flight; the
\* module globals are as the page's earlier sessions left them
InitSession(texts, stories, modes, globals) ==
  /\ currentApp = "text"
  /\ textAppSettings \in [gradeFolder : {"g"}, storyFilename : stories, voiceMode : modes]
  /\ elapsedTime = 0
  /\ fileText \in texts
  /\ textFetch = "pending"
  /\ earlierFetches = 0
  /\ now = 1
  /\ segments = <<>>
  /\ currentSegment = 0
  /\ isLoading = TRUE
  /\ errorMessage = NoError
  /\ currentSourceRef = 0
  /\ audioPathCacheRef = {}
  /\ fullTextStartTimeRef = -1
  /\ \E g \in globals :
       /\ audioContext = g.ctx
       /\ isAudioContextInitialized = g.init
       /\ isAudioEnabled = g.enabled
       /\ audioBufferCache = g.bufs
  /\ preload = NoPreload
  /\ attempts = <<>>

\* the first session of a page
InitWith(texts) == InitSession(texts, {SessionStory}, VoiceModes, {FreshGlobals})

Init == InitWith(SessionTexts)

\* what the AudioContext constructor can give where enableAudio would call it
CreatedChoices ==
  IF isAudioEnabled \/ isAudioContextInitialized THEN {"fail"} ELSE ContextOutcomes

\* whether audio.play() of the fallback element starts, where a step that gets
\* no buffer (none loaded, or no AudioContext) would call it
StartedChoices(buffered) ==
  IF buffered /\ isAudioContextInitialized /\ audioContext # "null"
    THEN {TRUE} ELSE BOOLEAN

\* ------------------------------------------------------- text loading
\* the commit after the load settled: the effects that depend on segments
LoadCommit(segs, cur, created, started) ==
  /\ fullTextStartTimeRef' =
       StartTimeEffect(textAppSettings, segs, FALSE, fullTextStartTimeRef, now)
  /\ SetAudio(PlayEffect(PreloadEffect(Audio, textAppSettings, segs, created),
                         textAppSettings, segs, cur, created, started))

\* the .catch of the load (lines 289-301)
LoadFailed(created, started) ==
  /\ segments' = <<ErrorSegment>>
  /\ errorMessage' = LoadFailedMessage
  /\ isLoading' = FALSE
  /\ currentSegment' = currentSegment
  /\ LoadCommit(<<ErrorSegment>>, currentSegment, created, started)

\* the .then(text => ...) of the load (lines 175-288)
TextLoaded ==
  /\ Mounted
  /\ textFetch = "pending"
  /\ textFetch' = "done"
  /\ \E created \in CreatedChoices, started \in StartedChoices(TRUE) :
       LET parsed == ParseText(fileText)
       IN  IF parsed.ok
             THEN /\ segments' = parsed.parsedSegments
                  /\ currentSegment' = FirstNonLineBreakFrom(parsed.parsedSegments, 0)
                  /\ isLoading' = FALSE
                  /\ errorMessage' = NoError
                  /\ LoadCommit(parsed.parsedSegments,
                                FirstNonLineBreakFrom(parsed.parsedSegments, 0),
                                created, started)
             ELSE LoadFailed(created, started)
  /\ UNCHANGED <<currentApp, textAppSettings, elapsedTime, fileText, earlierFetches, now>>

\* the fetch of the text asset fails (network error or !response.ok)
TextFetchError ==
  /\ Mounted
  /\ textFetch = "pending"
  /\ textFetch' = "done"
  /\ \E created \in CreatedChoices, started \in StartedChoices(TRUE) : LoadFailed(created, started)
  /\ UNCHANGED <<currentApp, textAppSettings, elapsedTime, fileText, earlierFetches, now>>

\* ------------------------------------------------------- user actions
\* the while loop of handleNextSegment from index n on
RECURSIVE SkipLineBreaks(_, _)
SkipLineBreaks(segs, n) ==
  IF n < Len(segs) /\ segs[n + 1].isLineBreak THEN SkipLineBreaks(segs, n + 1) ELSE n

\* mutation of NextSegment: the while loop of lines 968-970 is missing
NextSegmentWithoutSkip(segs, cur) == cur + 1

\* nextSegment of handleNextSegment
NextSegment(segs, cur) == SkipLineBreaks(segs, cur + 1)

\* TextDisplay leaves the screen: every effect's cleanup runs
Unmount(m) == PreloadCleanup(UnmountCleanup(m))

\* mutation of HandleTextDisplayComplete: the full-text branch is missing
HandleTextDisplayCompleteToModeSelection(elapsed) ==
  /\ elapsedTime' = elapsedTime
  /\ currentApp' = "mode_selection"

\* App.handleTextDisplayComplete; elapsed is -1 when onComplete() passes nothing
HandleTextDisplayComplete(elapsed) ==
  IF textAppSettings.voiceMode = "full-text" /\ elapsed # -1
    THEN /\ elapsedTime' = elapsed
         /\ currentApp' = "completion"
    ELSE /\ elapsedTime' = elapsedTime
         /\ currentApp' = "mode_selection"

\* mutation of NormalModeShown: in voice-on mode the container waits for the
\* audio to be enabled
NormalModeShownWhenAudioEnabled ==
  /\ Mounted /\ ~isLoading /\ errorMessage = NoError
  /\ textAppSettings.voiceMode # "full-text"
  /\ (textAppSettings.voiceMode = "voice-on" => isAudioEnabled)

\* the normal-mode container is rendered (lines 993-1008, 1081-1087)
NormalModeShown ==
  Mounted /\ ~isLoading /\ errorMessage = NoError /\ textAppSettings.voiceMode # "full-text"

\* the full-text container is rendered (lines 993-1011)
FullTextShown ==
  Mounted /\ ~isLoading /\ errorMessage = NoError /\ textAppSettings.voiceMode = "full-text"

\* click or Enter on the normal-mode container: handleNextSegment
Advance ==
  /\ NormalModeShown
  /\ \E created \in CreatedChoices, started \in StartedChoices(TRUE) :
       LET nextSegment == NextSegment(segments, currentSegment)
       IN  IF nextSegment < Len(segments)
             THEN /\ currentSegment' = nextSegment
                  /\ SetAudio(PlayEffect(Audio, textAppSettings, segments, nextSegment,
                                         created, started))
                  /\ UNCHANGED <<currentApp, elapsedTime>>
             ELSE /\ currentSegment' = currentSegment
                  /\ HandleTextDisplayComplete(-1)
                  /\ SetAudio(Unmount(Audio))
  /\ UNCHANGED <<textAppSettings, fileText, textFetch, earlierFetches, now, segments, isLoading,
                 errorMessage, fullTextStartTimeRef>>

\* the Next button of the full-text mode (lines 1063-1072)
FullTextNext ==
  /\ FullTextShown
  /\ LET elapsed == IF fullTextStartTimeRef # -1 /\ fullTextStartTimeRef # 0
                      THEN now - fullTextStartTimeRef ELSE 0
     IN  HandleTextDisplayComplete(elapsed)
  /\ SetAudio(Unmount(Audio))
  /\ UNCHANGED <<textAppSettings, fileText, textFetch, earlierFetches, now, segments, currentSegment,
                 isLoading, errorMessage, fullTextStartTimeRef>>

\* the back button of Navi: App.handleBackToHome
BackToHome ==
  /\ Mounted
  /\ currentApp' = "selector"
  /\ SetAudio(Unmount(Audio))
  /\ UNCHANGED <<textAppSettings, elapsedTime, fileText, textFetch, earlierFetches, now, segments,
                 currentSegment, isLoading, errorMessage, fullTextStartTimeRef>>

\* time passes; the clock is read in the full-text mode only (lines 379, 1066)
Tick ==
  /\ Mounted
  /\ textAppSettings.voiceMode = "full-text"
  /\ now < MaxTime
  /\ now' = now + 1
  /\ UNCHANGED <<currentApp, textAppSettings, elapsedTime, fileText, textFetch, earlierFetches, segments,
                 currentSegment, isLoading, errorMessage, currentSourceRef,
                 audioPathCacheRef, fullTextStartTimeRef, audioContext,
                 isAudioContextInitialized, isAudioEnabled, audioBufferCache, preload,
                 attempts>>

\* ------------------------------------------------------- render
SEGMENTS_PER_COLUMN == 4

\* the forEach of the normal-mode render from index j on (lines 1097-1116) and
\* the push of the last column (lines 1119-1121); a column keeps the indices of
\* its segments in place of the segments
RECURSIVE BuildColumns(_, _, _, _, _)
BuildColumns(segs, j, columns, currentColumn, nonLineBreakIndex) ==
  LET Closed == Append(columns,
                       [segments |-> currentColumn,
                        nonLineBreakStartIndex |-> nonLineBreakIndex - Len(currentColumn)])
  IN  IF j >= Len(segs)
        THEN IF Len(currentColumn) > 0 THEN Closed ELSE columns
      ELSE IF segs[j + 1].isLineBreak
        THEN IF Len(currentColumn) > 0
               THEN BuildColumns(segs, j + 1, Closed, <<>>, nonLineBreakIndex)
               ELSE BuildColumns(segs, j + 1, columns, currentColumn, nonLineBreakIndex)
      ELSE IF Len(currentColumn) + 1 >= SEGMENTS_PER_COLUMN
        THEN BuildColumns(segs, j + 1,
                          Append(columns,
                                 [segments |-> Append(currentColumn, j),
                                  nonLineBreakStartIndex |->
                                    nonLineBreakIndex + 1 - (Len(currentColumn) + 1)]),
                          <<>>, nonLineBreakIndex + 1)
      ELSE BuildColumns(segs, j + 1, columns, Append(currentColumn, j),
                        nonLineBreakIndex + 1)

Columns(segs) == BuildColumns(segs, 0, <<>>, <<>>, 0)

\* the indices of the segments whose span gets textSegmentVisible (lines 1126-1134)
VisibleSegments(segs, cur) ==
  LET columns == Columns(segs)
  IN  {columns[c].segments[k] :
         <<c, k>> \in {ck \in (1..Len(columns)) \X (1..SEGMENTS_PER_COLUMN) :
                         /\ ck[2] <= Len(columns[ck[1]].segments)
                         /\ columns[ck[1]].nonLineBreakStartIndex + (ck[2] - 1) = cur}}

\* the indices of the segments rendered at all, visible or hidden
RenderedSegments(segs) ==
  LET columns == Columns(segs)
  IN  UNION {{columns[c].segments[k] : k \in 1..Len(columns[c].segments)} :
               c \in 1..Len(columns)}

\* ------------------------------------------------------- furigana
\* /[\u4E00-\u9FAF]/: "K" and "L" stand for two ideographs of the block, every
\* other character is outside it
IsKanji(c) == c \in {"K", "L"}

\* Array.from(text.matchAll(kanjiRegex)): the 0-based match.index of every match
\* from position p on
RECURSIVE KanjiMatchesFrom(_, _)
KanjiMatchesFrom(text, p) ==
  IF p >= Len(text) THEN <<>>
  ELSE (IF IsKanji(text[p + 1]) THEN <<p>> ELSE <<>>) \o KanjiMatchesFrom(text, p + 1)

KanjiMatches(text) == KanjiMatchesFrom(text, 0)

\* mutation of FuriganaList: the readings are not trimmed
FuriganaListUntrimmed(furigana) == Split(furigana, COMMA)

\* furigana.split(',').map(f => f.trim())
FuriganaList(furigana) ==
  LET pieces == Split(furigana, COMMA)
  IN  [k \in 1..Len(pieces) |-> Trim(pieces[k])]

\* furiganaByIndex (lines 901-920) as a function of the position in
\* kanjiMatches (1-based): the reading set for that match, or Undefined
FuriganaByIndex(text, furigana) ==
  LET kanjiMatches == KanjiMatches(text)
  IN  IF \E k \in 1..Len(furigana) : furigana[k] = COMMA
        THEN LET furiganaList == FuriganaList(furigana)
             IN  [n \in 1..Len(kanjiMatches) |->
                    IF n - 1 < Len(furiganaList) /\ Len(furiganaList[n]) > 0
                      THEN Some(furiganaList[n]) ELSE Undefined]
        ELSE [n \in 1..Len(kanjiMatches) |-> IF n = 1 THEN Some(furigana) ELSE Undefined]

\* the nodes pushed to result by the forEach of lines 926-949 from the n-th
\* match on, and the rest of the text (lines 952-954)
RECURSIVE RenderFrom(_, _, _, _)
RenderFrom(text, byIndex, n, lastIndex) ==
  LET kanjiMatches == KanjiMatches(text)
  IN  IF n > Len(kanjiMatches)
        THEN IF lastIndex < Len(text)
               THEN <<[kind |-> "text", chars |-> SubstringFrom(text, lastIndex),
                       rt |-> Undefined]>>
               ELSE <<>>
        ELSE LET matchIndex == kanjiMatches[n]
                 before == IF matchIndex > lastIndex
                             THEN <<[kind |-> "text",
                                     chars |-> Substring(text, lastIndex, matchIndex),
                                     rt |-> Undefined]>>
                             ELSE <<>>
                 kanji == IF byIndex[n] # Undefined
                            THEN [kind |-> "ruby", chars |-> <<text[matchIndex + 1]>>,
                                  rt |-> byIndex[n]]
                            ELSE [kind |-> "text", chars |-> <<text[matchIndex + 1]>>,
                                  rt |-> Undefined]
             IN  before \o <<kanji>> \o RenderFrom(text, byIndex, n + 1, matchIndex + 1)

\* renderTextWithFurigana(text, furigana): the rendered nodes, in order; a plain
\* string is one text node
RenderTextWithFurigana(text, furigana) ==
  IF furigana = Undefined \/ furigana[1] = <<>>
    THEN <<[kind |-> "text", chars |-> text, rt |-> Undefined]>>
  ELSE IF Len(KanjiMatches(text)) = 0
    THEN <<[kind |-> "text", chars |-> text, rt |-> Undefined]>>
  ELSE RenderFrom(text, FuriganaByIndex(text, furigana[1]), 1, 0)

\* ------------------------------------------------------- enableAudio events
\* the callers of enableAudio: 0 is preload(), a >= 1 is the a-th playAudio()
Procs == 0..Len(attempts)
ProcOf(m, p) == IF p = 0 THEN m.preload ELSE m.attempts[p]

ClearUnlock(m, p, evt, timer) ==
  IF p = 0 THEN [m EXCEPT !.preload.unEvt = evt, !.preload.unTimer = timer]
  ELSE [m EXCEPT !.attempts[p].unEvt = evt, !.attempts[p].unTimer = timer]

\* the caller's await enableAudio() returns
ContinueAfterUnlock(m, p, started) ==
  IF ProcOf(m, p).pc # "unlock" THEN m
  ELSE IF p = 0 THEN PreloadIterate(m, segments, 0)
  ELSE PlayAfterUnlock(m, p, started)

AudioStepFrame ==
  UNCHANGED <<currentApp, textAppSettings, elapsedTime, fileText, textFetch, earlierFetches, now,
              segments, currentSegment, isLoading, errorMessage, fullTextStartTimeRef>>

\* resume() fulfils, or the primer's 'play' event fires (lines 47-50, 61-68)
UnlockSucceeded(p) ==
  /\ ProcOf(Audio, p).unEvt # "none"
  /\ \E started \in StartedChoices(TRUE) :
       LET m1 == [Audio EXCEPT !.enabled = TRUE,
                               !.ctx = IF ProcOf(Audio, p).unEvt = "resume"
                                         THEN "running" ELSE @]
       IN  SetAudio(ContinueAfterUnlock(ClearUnlock(m1, p, "none", FALSE), p, started))
  /\ AudioStepFrame

\* resume() rejects, or the primer fails or ends unplayed (lines 51-54, 70-83, 89)
UnlockFailed(p) ==
  /\ ProcOf(Audio, p).unEvt # "none"
  /\ \E started \in StartedChoices(TRUE) :
       SetAudio(ContinueAfterUnlock(
                  ClearUnlock(Audio, p, "none", ProcOf(Audio, p).unTimer), p, started))
  /\ AudioStepFrame

\* the 5 second timer fires while audio is not enabled (lines 93-99); fired when
\* audio is enabled it does nothing
UnlockTimeout(p) ==
  /\ ProcOf(Audio, p).unTimer
  /\ ~isAudioEnabled
  /\ \E started \in StartedChoices(TRUE) :
       SetAudio(ContinueAfterUnlock(
                  ClearUnlock([Audio EXCEPT !.enabled = TRUE], p, "none", FALSE),
                  p, started))
  /\ AudioStepFrame

\* ------------------------------------------------------- playAudio steps
Attempts == 1..Len(attempts)

\* What a probe of resolveAudioPath ends in (lines 772-812).  The awaits of one
\* probe (fetch, arrayBuffer, decodeAudioData) change no state between them and
\* are one step: "audio" is a good status with an audio content type; "decoded" is
\* status 206 without content type whose bytes decode; "reject" is every other end
\* (bad status, other content type, failed decode, network error).
\* the response to the probe's fetch: status "error" is a rejected fetch (network
\* error), decodes tells whether decodeAudioData accepts the bytes received
Responses ==
  [status : {"200", "206", "404", "error"}, contentType : {"audio", "", "other"},
   decodes : BOOLEAN]

\* mutation of ProbeOutcomeOf: the decode test is made for every good status
ProbeOutcomeDecodingAnyStatus(r) ==
  IF r.status \in {"200", "206"}
    THEN IF r.contentType = "audio" THEN "audio"
         ELSE IF r.contentType = "" /\ r.decodes THEN "decoded"
         ELSE "reject"
    ELSE "reject"

\* lines 769-812 for one response
ProbeOutcomeOf(r) ==
  IF r.status \in {"200", "206"}
    THEN IF r.contentType = "audio" THEN "audio"
         ELSE IF r.status = "206" /\ r.contentType = ""
           THEN IF r.decodes THEN "decoded" ELSE "reject"
         ELSE "reject"
    ELSE "reject"

ProbeOutcomes == {ProbeOutcomeOf(r) : r \in Responses}

\* the candidate is returned on "audio", and on "decoded" when there is an
\* AudioContext to decode with (line 791)
ProbeAccepts(outcome, ctx) ==
  outcome = "audio" \/ (outcome = "decoded" /\ ctx # "null")

PlayProbeResponse(a) ==
  /\ attempts[a].pc = "probe"
  /\ \E outcome \in ProbeOutcomes, started \in StartedChoices(TRUE) :
       SetAudio(IF ProbeAccepts(outcome, audioContext)
                  THEN PlayProbeAccept(Audio, a, started)
                  ELSE PlayProbeNext(Audio, a))
  /\ AudioStepFrame

\* how the requests of loadAudioBuffer end: fetch and decode succeed, the fetch
\* fails (network error or !response.ok), decodeAudioData rejects
LoadOutcomes == {"ok", "fetch-error", "decode-error"}

\* mutation of LoadAudioBuffer: the path is cached before the decode is known
LoadAudioBufferCachingEarly(bufs, path, outcome) ==
  [bufs |-> IF outcome = "fetch-error" THEN bufs ELSE bufs \cup {path},
   error |-> IF outcome = "ok" THEN "none"
             ELSE IF outcome = "decode-error" THEN "EncodingError" ELSE "Error"]

\* loadAudioBuffer from its fetch on (lines 840-860): the cache afterwards and
\* the name of the error thrown ("none" when the buffer is returned)
LoadAudioBuffer(bufs, path, outcome) ==
  IF outcome = "ok" THEN [bufs |-> bufs \cup {path}, error |-> "none"]
  ELSE IF outcome = "decode-error" THEN [bufs |-> bufs, error |-> "EncodingError"]
  ELSE [bufs |-> bufs, error |-> "Error"]

\* loadAudioBuffer settles in playAudio (lines 636-658): fetch, arrayBuffer and
\* decodeAudioData are one step
PlayLoaded(a) ==
  /\ attempts[a].pc = "load"
  /\ \E outcome \in LoadOutcomes :
       LET loaded == LoadAudioBuffer(audioBufferCache, attempts[a].path, outcome) IN
       \E started \in StartedChoices(loaded.error = "none") :
         SetAudio(IF loaded.error = "none"
                    THEN StartSource([Audio EXCEPT !.bufs = loaded.bufs], a)
                    ELSE PlayWithAudioElement(Audio, a, started))
  /\ AudioStepFrame

\* the 'ended' event of a buffer source, played to its end or stopped: onended
SourceEnded(a) ==
  /\ attempts[a].pc \in {"playing", "stopped"}
  /\ SetAudio([Audio EXCEPT !.attempts[a].pc = "done", !.ref = 0])
  /\ AudioStepFrame

\* the fallback element plays to its end
ElementEnded(a) ==
  /\ attempts[a].pc = "element"
  /\ SetAudio([Audio EXCEPT !.attempts[a].pc = "done"])
  /\ AudioStepFrame

\* ------------------------------------------------------- preload steps
PreloadProbeResponse ==
  /\ preload.pc = "probe"
  /\ \E outcome \in ProbeOutcomes :
       SetAudio(IF ProbeAccepts(outcome, audioContext)
                  THEN PreloadProbeAccept(Audio, segments)
                  ELSE PreloadProbeNext(Audio, segments))
  /\ AudioStepFrame

\* loadAudioBuffer of preload settles (lines 347-353)
PreloadLoaded ==
  /\ preload.pc = "load"
  /\ \E outcome \in LoadOutcomes :
       SetAudio(PreloadIterate(
                  [Audio EXCEPT !.bufs = LoadAudioBuffer(@, preload.path, outcome).bufs],
                  segments, preload.i + 1))
  /\ AudioStepFrame

\* ------------------------------------------------------- specification
Next ==
  \/ TextLoaded
  \/ TextFetchError
  \/ Advance
  \/ FullTextNext
  \/ BackToHome
  \/ Tick
  \/ \E p \in Procs : UnlockSucceeded(p)
  \/ \E p \in Procs : UnlockFailed(p)
  \/ \E p \in Procs : UnlockTimeout(p)
  \/ \E a \in Attempts : PlayProbeResponse(a)
  \/ \E a \in Attempts : PlayLoaded(a)
  \/ \E a \in Attempts : SourceEnded(a)
  \/ \E a \in Attempts : ElementEnded(a)
  \/ PreloadProbeResponse
  \/ PreloadLoaded

Spec == Init /\ [][Next]_vars

\* the preload's await enableAudio() returns: on the event of resume() or of the
\* primer, or on the 5 second timer at the latest
PreloadUnlocked == UnlockSucceeded(0) \/ UnlockFailed(0) \/ UnlockTimeout(0)

\* the browser settles every request of the preload (response or error) and
\* delivers the events and the timer of its enableAudio
SpecWeaklyFair ==
  /\ Spec
  /\ WF_vars(PreloadUnlocked)
  /\ WF_vars(PreloadProbeResponse)
  /\ WF_vars(PreloadLoaded)

\* where the preload waits: at its unlock, or at a request for a segment
PreloadPosition == <<preload.pc, preload.i, preload.cand>>

\* a segment has at most 2 directories times 3 file names to probe
PreloadPositions ==
  {<<"unlock", 0, 0>>}
    \cup ({"probe", "load"} \X (0..(MaxLoad - 1)) \X (1..(2 * 3)))

\* SpecWeaklyFair with its three conditions written without ENABLED.  Each of
\* the three actions is enabled exactly while the preload waits at a position
\* (PreloadUnlocked at the unlock, PreloadProbeResponse at a probe,
\* PreloadLoaded at a load), every step of the action leaves the position and
\* no other step does: weak fairness of the action says that the preload does
\* not wait at one position for ever
SpecFair ==
  /\ Spec
  /\ \A position \in PreloadPositions : []<>(PreloadPosition # position)

\* ------------------------------------------------------- parser specification
\* every file content of at most MaxTextLen characters, read in a session
\* without audio
ParseAlphabet == {"a", COMMA, SP, LF, CR}

RECURSIVE TextsOfLength(_)
TextsOfLength(n) ==
  IF n = 0 THEN {<<>>}
  ELSE {Append(t, c) : t \in TextsOfLength(n - 1), c \in ParseAlphabet}

ParseTexts == UNION {TextsOfLength(n) : n \in 0..MaxTextLen}

InitParse == InitWith(ParseTexts) /\ textAppSettings.voiceMode = "voice-off"

NextParse == TextLoaded \/ Advance

SpecParse == InitParse /\ [][NextParse]_vars

\* the strings over alphabet of at most n characters
RECURSIVE StringsOver(_, _)
StringsOver(alphabet, n) ==
  IF n = 0 THEN {<<>>}
  ELSE LET shorter == StringsOver(alphabet, n - 1)
       IN  shorter \cup {Append(t, c) : t \in shorter, c \in alphabet}

\* ------------------------------------------------------- sessions specification
\* the requests, events and timers of the session's closures have all settled
Settled ==
  /\ preload.pc \in {"none", "done"} /\ preload.unEvt = "none" /\ ~preload.unTimer
  /\ \A a \in Attempts :
       /\ attempts[a].pc \notin {"unlock", "probe", "load"}
       /\ attempts[a].unEvt = "none" /\ ~attempts[a].unTimer

\* the user comes back to the reading screen after TextDisplay was unmounted:
\* handleModeSelectionProceed or handleProceedToTextApp, then handleStartReading
\* mounts a new TextDisplay.  The story is the same, the voice mode is chosen
\* again; the component state and refs are new, the module globals are kept.
\* The step is taken once the closures of the earlier session have settled; its
\* audio that may still sound is left to end by itself
StartReading ==
  /\ ~Mounted
  /\ Settled
  /\ currentApp' = "text"
  /\ \E voiceMode \in VoiceModes :
       textAppSettings' = [textAppSettings EXCEPT !.voiceMode = voiceMode]
  /\ textFetch' = "pending"
  /\ segments' = <<>>
  /\ currentSegment' = 0
  /\ isLoading' = TRUE
  /\ errorMessage' = NoError
  /\ currentSourceRef' = 0
  /\ audioPathCacheRef' = {}
  /\ fullTextStartTimeRef' = -1
  /\ preload' = NoPreload
  /\ attempts' = <<>>
  /\ UNCHANGED <<elapsedTime, fileText, earlierFetches, now, audioContext, isAudioContextInitialized,
                 isAudioEnabled, audioBufferCache>>

\* the rows of the texts of the sessions specification: a voiced segment, a
\* segment without voice file
SessionsRows == {<<"a">>, <<COMMA, "b">>}

\* the texts of the sessions specification
SessionsTexts ==
  {t \in UNION {TextsOfRows(SessionsRows, n) : n \in 1..MaxSessionsLoad} :
     Len(Split(t, LF)) + VoicedRows(Split(t, LF)) <= MaxSessionsLoad}

InitSessions == InitSession(SessionsTexts, {SessionStory}, VoiceModes, {FreshGlobals})

NextSessions == Next \/ StartReading

SpecSessions == InitSessions /\ [][NextSessions]_vars

\* ------------------------------------------------------- app specification
\* App from its first render on (App.tsx lines 26-34).  currentApp 'text' with
\* showStartScreen 0 (the start screen) is the value "text_start"; "text" is
\* currentApp 'text' with showStartScreen 1, where TextDisplay is rendered.
\* textAppSettings null is NoSettings, whose voiceMode equals no voice mode.
MaxAppLoad == 2

NoSettings == [gradeFolder |-> "", storyFilename |-> <<>>, voiceMode |-> "null"]

AppTexts ==
  {t \in UNION {TextsOfRows(SessionRows, n) : n \in 1..MaxAppLoad} :
     Len(Split(t, LF)) + VoicedRows(Split(t, LF)) <= MaxAppLoad}

InitApp ==
  /\ currentApp = "selector"
  /\ textAppSettings = NoSettings
  /\ elapsedTime = 0
  /\ fileText \in AppTexts
  /\ textFetch = "idle"
  /\ earlierFetches = 0
  /\ now = 1
  /\ segments = <<>>
  /\ currentSegment = 0
  /\ isLoading = TRUE
  /\ errorMessage = NoError
  /\ currentSourceRef = 0
  /\ audioPathCacheRef = {}
  /\ fullTextStartTimeRef = -1
  /\ audioContext = "null"
  /\ isAudioContextInitialized = FALSE
  /\ isAudioEnabled = FALSE
  /\ audioBufferCache = {}
  /\ preload = NoPreload
  /\ attempts = <<>>

\* a step of App that renders another screen and no TextDisplay before or after
ScreenFrame ==
  UNCHANGED <<elapsedTime, fileText, textFetch, earlierFetches, now, segments, currentSegment,
              isLoading, errorMessage, currentSourceRef, audioPathCacheRef,
              fullTextStartTimeRef, audioContext, isAudioContextInitialized,
              isAudioEnabled, audioBufferCache, preload, attempts>>

HandleOpenKanjiApp ==
  /\ currentApp = "selector"
  /\ currentApp' = "kanji"
  /\ UNCHANGED textAppSettings
  /\ ScreenFrame

HandleEnterTextHome ==
  /\ currentApp = "selector"
  /\ currentApp' = "text_home"
  /\ UNCHANGED textAppSettings
  /\ ScreenFrame

\* HomeScreen calls onProceed with the settings chosen
HandleProceedToTextApp ==
  /\ currentApp = "text_home"
  /\ textAppSettings' \in [gradeFolder : {"g"}, storyFilename : {SessionStory},
                            voiceMode : VoiceModes]
  /\ currentApp' = "text_start"
  /\ ScreenFrame

\* ModeSelectionScreen calls onProceed with a voice mode
HandleModeSelectionProceed ==
  /\ currentApp = "mode_selection"
  /\ \E voiceMode \in VoiceModes :
       IF textAppSettings # NoSettings
         THEN /\ textAppSettings' = [textAppSettings EXCEPT !.voiceMode = voiceMode]
              /\ currentApp' = "text_start"
         ELSE UNCHANGED <<textAppSettings, currentApp>>
  /\ ScreenFrame

\* the start screen's button: TextDisplay is mounted, with new state and refs.
\* The step is taken once the closures of the earlier session have settled
HandleStartReading ==
  /\ currentApp = "text_start"
  /\ Settled
  /\ currentApp' = "text"
  /\ textFetch' = "pending"
  /\ segments' = <<>>
  /\ currentSegment' = 0
  /\ isLoading' = TRUE
  /\ errorMessage' = NoError
  /\ currentSourceRef' = 0
  /\ audioPathCacheRef' = {}
  /\ fullTextStartTimeRef' = -1
  /\ preload' = NoPreload
  /\ attempts' = <<>>
  /\ UNCHANGED <<textAppSettings, elapsedTime, fileText, earlierFetches, now, audioContext,
                 isAudioContextInitialized, isAudioEnabled, audioBufferCache>>

\* handleBackToHome from a screen other than TextDisplay
HandleBackToHome ==
  /\ currentApp \in {"kanji", "text_home", "text_start", "mode_selection", "completion"}
  /\ currentApp' = "selector"
  /\ UNCHANGED textAppSettings
  /\ ScreenFrame

\* the onFinish of CompletionScreen
CompletionFinish ==
  /\ currentApp = "completion"
  /\ currentApp' = "text_home"
  /\ UNCHANGED textAppSettings
  /\ ScreenFrame

NextApp ==
  \/ Next
  \/ HandleOpenKanjiApp
  \/ HandleEnterTextHome
  \/ HandleProceedToTextApp
  \/ HandleModeSelectionProceed
  \/ HandleStartReading
  \/ HandleBackToHome
  \/ CompletionFinish

SpecApp == InitApp /\ [][NextApp]_vars

\* ------------------------------------------------------- resolution specification
\* sessions of a page whose audio is enabled already, with or without an
\* AudioContext, that read a one-row content naming a voice file; every story
\* name of at most MaxStoryLen characters, every voice file name of at most
\* MaxRefLen characters and the names with a supported extension
StoryAlphabet == {"1", "_", "s", DOT}
RefAlphabet == {"a", DOT}

ResolveStories == StringsOver(StoryAlphabet, MaxStoryLen)

ResolveRefs ==
  (StringsOver(RefAlphabet, MaxRefLen) \ {<<>>})
    \cup {r \o e : r \in {<<>>, <<"a">>}, e \in {WAV, MP3}}

EnabledGlobals ==
  {[ctx |-> "running", init |-> TRUE, enabled |-> TRUE, bufs |-> {}],
   [ctx |-> "null", init |-> FALSE, enabled |-> TRUE, bufs |-> {}]}

InitResolve == InitSession(ResolveRefs, ResolveStories, {"voice-on"}, EnabledGlobals)

NextResolve ==
  \/ TextLoaded
  \/ \E a \in Attempts : PlayProbeResponse(a)
  \/ PreloadProbeResponse

SpecResolve == InitResolve /\ [][NextResolve]_vars

\* ------------------------------------------------------- settings specification
\* TextDisplay while its parent hands it new settings in place: the effects keyed
\* on textAppSettings (lines 302, 370, 386, 667) run again on the mounted
\* component.  The new settings object differs in its voice mode, as the one
\* handleModeSelectionProceed builds; it names the same text asset.  The sessions
\* are those of a page whose audio is enabled already, with a running
\* AudioContext, in the two modes that show one segment at a time.
MaxSettingsLoad == 2
MaxSettingsAttempts == 1
MaxEarlierFetches == 1

\* the rows of its texts: a voiced segment, a segment without voice file
SettingsRows == {<<"a">>, <<COMMA, "b">>}

SettingsTexts ==
  {t \in UNION {TextsOfRows(SettingsRows, n) : n \in 1..MaxSettingsLoad} :
     Len(Split(t, LF)) + VoicedRows(Split(t, LF)) <= MaxSettingsLoad}

SettingsModes == {"voice-on", "voice-off"}

\* the module globals after an earlier session: AudioContext running, audio enabled
RunningGlobals == [ctx |-> "running", init |-> TRUE, enabled |-> TRUE, bufs |-> {}]

InitSettings == InitSession(SettingsTexts, {SessionStory}, SettingsModes, {RunningGlobals})

\* the commit of a render with new settings: the cleanup of the preload effect,
\* then the load effect (setIsLoading(true), setCurrentSegment(0), a new fetch;
\* the fetch of the earlier run stays in flight), the preload effect, the
\* start-time effect and the play effect, on the segments and the index of that
\* render; then the render of isLoading true and index 0, after which the
\* start-time effect and (when the index changed) the play effect run again
SettingsChanged ==
  /\ Mounted
  /\ textFetch = "pending" => earlierFetches < MaxEarlierFetches
  /\ \E voiceMode \in SettingsModes \ {textAppSettings.voiceMode},
        created \in CreatedChoices, started \in StartedChoices(TRUE) :
       /\ voiceMode = "voice-on" => Len(attempts) < MaxSettingsAttempts
       /\ LET settings == [textAppSettings EXCEPT !.voiceMode = voiceMode]
              r1 == StartTimeEffect(settings, segments, isLoading, fullTextStartTimeRef, now)
          IN  /\ textAppSettings' = settings
              /\ \E m1 \in {PreloadEffect(PreloadCleanup(Audio), settings, segments, created)} :
                 \E m2 \in {PlayEffect(m1, settings, segments, currentSegment,
                                       created, started)} :
                   SetAudio(IF currentSegment # 0
                              THEN PlayEffect(m2, settings, segments, 0, created, started)
                              ELSE m2)
              /\ fullTextStartTimeRef' =
                   IF isLoading THEN r1 ELSE StartTimeEffect(settings, segments, TRUE, r1, now)
  /\ isLoading' = TRUE
  /\ currentSegment' = 0
  /\ earlierFetches' = IF textFetch = "pending" THEN earlierFetches + 1 ELSE earlierFetches
  /\ textFetch' = "pending"
  /\ UNCHANGED <<currentApp, elapsedTime, fileText, now, segments, errorMessage>>

\* the .then(text => ...) of an earlier run of the load effect (lines 175-288):
\* nothing cancels it and it does not look at the settings
EarlierTextLoaded ==
  /\ Mounted
  /\ earlierFetches > 0
  /\ earlierFetches' = earlierFetches - 1
  /\ \E created \in CreatedChoices, started \in StartedChoices(TRUE) :
       LET parsed == ParseText(fileText)
       IN  IF parsed.ok
             THEN /\ segments' = parsed.parsedSegments
                  /\ currentSegment' = FirstNonLineBreakFrom(parsed.parsedSegments, 0)
                  /\ isLoading' = FALSE
                  /\ errorMessage' = NoError
                  /\ LoadCommit(parsed.parsedSegments,
                                FirstNonLineBreakFrom(parsed.parsedSegments, 0),
                                created, started)
             ELSE LoadFailed(created, started)
  /\ UNCHANGED <<currentApp, textAppSettings, elapsedTime, fileText, textFetch, now>>

\* the .catch of an earlier run of the load effect (lines 289-301)
EarlierTextFetchError ==
  /\ Mounted
  /\ earlierFetches > 0
  /\ earlierFetches' = earlierFetches - 1
  /\ \E created \in CreatedChoices, started \in StartedChoices(TRUE) : LoadFailed(created, started)
  /\ UNCHANGED <<currentApp, textAppSettings, elapsedTime, fileText, textFetch, now>>

NextSettings ==
  \/ TextLoaded
  \/ TextFetchError
  \/ Advance
  \/ SettingsChanged
  \/ EarlierTextLoaded
  \/ EarlierTextFetchError
  \/ \E a \in Attempts : PlayProbeResponse(a)
  \/ \E a \in Attempts : PlayLoaded(a)
  \/ \E a \in Attempts : SourceEnded(a)
  \/ \E a \in Attempts : ElementEnded(a)
  \/ PreloadProbeResponse
  \/ PreloadLoaded

SpecSettings == InitSettings /\ [][NextSettings]_vars

\* ------------------------------------------------------- furigana specification
\* every one-row content ",text,furigana" with a text of at most MaxRubyTextLen
\* characters and a furigana of at most MaxFuriganaLen characters, read in a
\* session without audio
RubyTextAlphabet == {"K", "L", "a"}
FuriganaAlphabet == {"r", COMMA, SP}

FuriganaTexts ==
  {<<COMMA>> \o t \o <<COMMA>> \o f :
     t \in StringsOver(RubyTextAlphabet, MaxRubyTextLen) \ {<<>>},
     f \in StringsOver(FuriganaAlphabet, MaxFuriganaLen)}

InitFurigana == InitWith(FuriganaTexts) /\ textAppSettings.voiceMode = "voice-off"

NextFurigana == TextLoaded \/ Advance

SpecFurigana == InitFurigana /\ [][NextFurigana]_vars

\* =================================================================== claims
\* the text load has settled
LoadEnded == textFetch = "done"

\* the text load has settled and TextDisplay is still on the screen
Loaded == Mounted /\ LoadEnded

\* the play attempts whose audio sounds: a started buffer source that was not
\* stopped and has not ended, or a started fallback element that has not ended
PlayingAttempts == {a \in Attempts : attempts[a].pc \in {"playing", "element"}}

\* the indices after cur whose segment is not a line break
LaterSegments(segs, cur) == {j \in (cur + 1)..(Len(segs) - 1) : ~segs[j + 1].isLineBreak}

Least(S) == CHOOSE x \in S : \A y \in S : x <= y

\* ------------------------------------------------------------------- C1
\* C1: while a voice-on session is on the screen, at most one audio source (a
\* buffer source or a fallback element) is playing at any time.
C1_AtMostOneSourcePlaying ==
  Mounted => Cardinality(PlayingAttempts) <= 1

\* ------------------------------------------------------------------- C2
\* C2: in the one-at-a-time modes, whenever the current index addresses a
\* segment, exactly one segment is visible and it is the segment at the current
\* index.
C2_OnlyCurrentSegmentVisible ==
  (NormalModeShown /\ currentSegment < Len(segments))
    => VisibleSegments(segments, currentSegment) = {currentSegment}

\* ------------------------------------------------------------------- C3
\* preload() sends a request: it enters a probe or a buffer fetch it was not in
PreloadRequest ==
  /\ preload'.pc \in {"probe", "load"}
  /\ <<preload'.pc, preload'.i, preload'.cand>> # <<preload.pc, preload.i, preload.cand>>

\* C3: once the disposal flag of the preload is set, the preload sends no
\* further network request.
C3_NoRequestAfterDisposal ==
  [][preload.disposed => ~PreloadRequest]_vars

\* ------------------------------------------------------------------- C4
\* C4: after TextDisplay left the screen no audio source of the session is
\* playing and the path cache is empty.
C4_DisposalStopsAudioAndClearsCache ==
  ~Mounted => (PlayingAttempts = {} /\ audioPathCacheRef = {})

\* ------------------------------------------------------------------- C5
\* C5: a user advance that finds a later segment that is not a line break moves
\* the current index to the least such index, and in a loaded session no step
\* other than a user advance changes the current index.
C5_AdvanceToNextNonLineBreak ==
  [][/\ (Advance /\ LaterSegments(segments, currentSegment) # {})
          => currentSegment' = Least(LaterSegments(segments, currentSegment))
     /\ (Loaded /\ currentSegment' # currentSegment) => Advance]_vars

\* an advance has gone from the first segment over a run of two line breaks
C5_SkippedRunOfLineBreaks ==
  /\ Loaded
  /\ Len(segments) >= 4
  /\ ~segments[1].isLineBreak
  /\ segments[2].isLineBreak
  /\ segments[3].isLineBreak
  /\ currentSegment = 3

\* ------------------------------------------------------------------- C6
\* the completion callback is invoked: App leaves the text screen for the
\* completion or the mode-selection screen
CompletionSignal == Mounted /\ currentApp' \in {"completion", "mode_selection"}

\* C6: in the one-at-a-time modes the completion callback is invoked exactly by
\* a user advance that finds no later segment that is not a line break, and the
\* current index stays; in full-text mode it is invoked exactly by the Next
\* button and carries the time since the load made the segments visible, which
\* is not negative.
C6_CompletionSignal ==
  [][/\ textAppSettings.voiceMode # "full-text"
          => /\ CompletionSignal
                  <=> (Advance /\ LaterSegments(segments, currentSegment) = {})
             /\ CompletionSignal => currentSegment' = currentSegment
     /\ textAppSettings.voiceMode = "full-text"
          => /\ CompletionSignal <=> FullTextNext
             /\ CompletionSignal
                  => /\ currentApp' = "completion"
                     /\ elapsedTime' = now - fullTextStartTimeRef
                     /\ elapsedTime' >= 0
             /\ (Mounted /\ ~LoadEnded /\ LoadEnded') => fullTextStartTimeRef' = now
             /\ LoadEnded => fullTextStartTimeRef' = fullTextStartTimeRef]_vars

\* a full-text session was completed one instant after its segments were shown
C6_CompletedWithElapsedTime ==
  currentApp = "completion" /\ elapsedTime = 1

\* ------------------------------------------------------------------- C7
\* a completion of an asynchronous audio step (unlock, probe, fetch, decode, end
\* of playback), successful or failed
AudioEvent ==
  \/ \E p \in Procs : UnlockSucceeded(p) \/ UnlockFailed(p) \/ UnlockTimeout(p)
  \/ \E a \in Attempts : PlayProbeResponse(a) \/ PlayLoaded(a) \/ SourceEnded(a)
                           \/ ElementEnded(a)
  \/ PreloadProbeResponse
  \/ PreloadLoaded

\* C7: no audio event changes the current index, the screen, the segments or
\* the error message; in a loaded one-at-a-time session without error the
\* container that takes the click and the Enter key is rendered whatever the
\* audio state, and the advance moves the index or signals completion as the
\* segments alone decide; the error message changes only when the load settles.
C7_AudioNeverAffectsProgression ==
  [][/\ AudioEvent
          => UNCHANGED <<currentSegment, currentApp, errorMessage, segments, isLoading,
                         elapsedTime>>
     /\ (Loaded /\ errorMessage = NoError /\ textAppSettings.voiceMode # "full-text")
          => NormalModeShown
     /\ Advance
          => IF LaterSegments(segments, currentSegment) # {}
               THEN /\ currentSegment' = Least(LaterSegments(segments, currentSegment))
                    /\ currentApp' = currentApp
               ELSE /\ currentSegment' = currentSegment
                    /\ currentApp' = "mode_selection"
     /\ errorMessage' # errorMessage => (~LoadEnded /\ LoadEnded')]_vars

\* the audio of the first segment failed (no path resolved, nothing cached) and
\* the user has advanced to the second voiced segment
C7_AdvancedAfterAudioFailure ==
  /\ Mounted
  /\ Len(attempts) = 2
  /\ attempts[1].pc = "done"
  /\ audioPathCacheRef = {}
  /\ audioBufferCache = {}
  /\ currentSegment = attempts[2].seg
  /\ errorMessage = NoError

\* ------------------------------------------------------------------- C8
\* the fields of a segment, line breaks apart
FieldsOf(seg) == [voiceFile |-> seg.voiceFile, text |-> seg.text, furigana |-> seg.furigana]

IsNoLineBreak(seg) == ~seg.isLineBreak
IsNotBlank(row) == Trim(row) # <<>>
HasText(f) == f.text # <<>>

\* the pieces k, k+1, ... of a row cut at every comma, joined by commas again
RECURSIVE JoinFrom(_, _)
JoinFrom(pieces, k) ==
  IF k > Len(pieces) THEN <<>>
  ELSE IF k = Len(pieces) THEN pieces[k]
  ELSE pieces[k] \o <<COMMA>> \o JoinFrom(pieces, k + 1)

\* an optional furigana: absent when the trimmed string is empty
Optional(str) == IF Trim(str) = <<>> THEN Undefined ELSE Some(Trim(str))

\* the fields of a non-blank row, every field trimmed
TrimmedFields(row) ==
  LET pieces == Split(row, COMMA)
  IN  IF Len(pieces) = 1
        THEN [voiceFile |-> Trim(row), text |-> Trim(row), furigana |-> Undefined]
      ELSE IF Len(pieces) = 2
        THEN [voiceFile |-> Trim(pieces[1]), text |-> Trim(pieces[2]),
              furigana |-> Undefined]
      ELSE [voiceFile |-> Trim(pieces[1]), text |-> Trim(pieces[2]),
            furigana |-> Optional(JoinFrom(pieces, 3))]

\* the fields of a non-blank row with the text of a one-comma row taken as the
\* part after the comma, as it stands
FieldsWithTextVerbatim(row) ==
  LET pieces == Split(row, COMMA)
  IN  IF Len(pieces) = 2
        THEN [voiceFile |-> Trim(pieces[1]), text |-> pieces[2], furigana |-> Undefined]
        ELSE TrimmedFields(row)

\* the fields of the segments that are not line breaks, in order
SegmentFields(segs) ==
  LET kept == SelectSeq(segs, IsNoLineBreak)
  IN  [k \in 1..Len(kept) |-> FieldsOf(kept[k])]

\* C8 (amended): after a successful load the segments that are not line breaks
\* are, in order, the non-blank rows with non-empty text cut at their first two
\* commas, each of audioRef, text and furigana trimmed, the furigana absent when
\* empty.
C8_FieldsSplitOnFirstTwoCommas ==
  (LoadEnded /\ errorMessage = NoError)
    => LET rows == SelectSeq(Rows(fileText), IsNotBlank)
           fields == [k \in 1..Len(rows) |-> TrimmedFields(rows[k])]
       IN  SegmentFields(segments) = SelectSeq(fields, HasText)

\* C8 (as stated): the same with the text of a one-comma row being the part
\* after the comma.
C8_TextIsPartAfterComma ==
  (LoadEnded /\ errorMessage = NoError)
    => LET rows == SelectSeq(Rows(fileText), IsNotBlank)
           fields == [k \in 1..Len(rows) |-> FieldsWithTextVerbatim(rows[k])]
       IN  SegmentFields(segments) = SelectSeq(fields, HasText)

\* a loaded content with a one-comma row whose part after the comma has
\* whitespace around a text
C8_LoadedRowWithPaddedText ==
  /\ LoadEnded
  /\ errorMessage = NoError
  /\ \E k \in 1..Len(Rows(fileText)) :
       LET pieces == Split(Rows(fileText)[k], COMMA)
       IN  Len(pieces) = 2 /\ Trim(pieces[2]) # <<>> /\ Trim(pieces[2]) # pieces[2]

\* ------------------------------------------------------------------- C9
\* what a segment is: a line break or a segment with text
KindOf(seg) == IF seg.isLineBreak THEN "break" ELSE "segment"

\* what the rows from the k-th on yield, in order; the rows that yield a line
\* break are the blank rows (empty or whitespace only) when blankOnly holds, and
\* the empty rows otherwise
RECURSIVE KindsFrom(_, _, _)
KindsFrom(rows, k, blankOnly) ==
  IF k > Len(rows) THEN <<>>
  ELSE (IF (IF blankOnly THEN Trim(rows[k]) = <<>> ELSE rows[k] = <<>>)
          THEN <<"break">>
        ELSE IF TrimmedFields(rows[k]).text = <<>> THEN <<>>
        ELSE <<"segment">>) \o KindsFrom(rows, k + 1, blankOnly)

\* every segment is well formed: a line break has no text, audio or furigana,
\* another segment has text
WellFormed(segs) ==
  \A k \in 1..Len(segs) :
    IF segs[k].isLineBreak
      THEN segs[k].text = <<>> /\ segs[k].voiceFile = <<>> /\ segs[k].furigana = Undefined
      ELSE segs[k].text # <<>>

\* C9 (amended): after a successful load the segments follow the rows in order:
\* a row that is empty or holds only whitespace yields one line break, another
\* row whose text field is empty yields nothing, every other row yields one
\* segment; every segment that is not a line break has non-empty text.
C9_SegmentsFollowRows ==
  (LoadEnded /\ errorMessage = NoError)
    => /\ [k \in 1..Len(segments) |-> KindOf(segments[k])]
            = KindsFrom(Rows(fileText), 1, TRUE)
       /\ WellFormed(segments)

\* C9 (as stated): the same with the empty rows alone yielding a line break.
C9_OnlyEmptyRowsYieldLineBreaks ==
  (LoadEnded /\ errorMessage = NoError)
    => /\ [k \in 1..Len(segments) |-> KindOf(segments[k])]
            = KindsFrom(Rows(fileText), 1, FALSE)
       /\ WellFormed(segments)

\* a loaded content with a whitespace-only row, a row without text and a row
\* with text
C9_LoadedAllRowKinds ==
  /\ LoadEnded
  /\ errorMessage = NoError
  /\ \E k \in 1..Len(Rows(fileText)) :
       Rows(fileText)[k] # <<>> /\ Trim(Rows(fileText)[k]) = <<>>
  /\ \E k \in 1..Len(Rows(fileText)) :
       Trim(Rows(fileText)[k]) # <<>> /\ TrimmedFields(Rows(fileText)[k]).text = <<>>
  /\ Len(segments) = 2

\* ------------------------------------------------------------------- C10
\* the content is empty, or no row of it yields a segment
EmptyContent(text) ==
  \/ Trim(text) = <<>>
  \/ KindsFrom(Rows(text), 1, TRUE) = <<>>

\* the blocking error state
ErrorState == errorMessage # NoError /\ ~isLoading

RECURSIVE RenderedChars(_)
RenderedChars(nodes) ==
  IF nodes = <<>> THEN <<>> ELSE Head(nodes).chars \o RenderedChars(Tail(nodes))

\* the annotation of every rendered character, in order: the reading of the
\* ruby node that holds it, or Undefined
RECURSIVE RenderedReadings(_)
RenderedReadings(nodes) ==
  IF nodes = <<>> THEN <<>>
  ELSE [k \in 1..Len(Head(nodes).chars) |-> Head(nodes).rt]
         \o RenderedReadings(Tail(nodes))

\* the number of ideographs of text up to and including position p (1-based)
IdeographRank(text, p) == Cardinality({q \in 1..p : IsKanji(text[q])})

\* the annotation the character at position p of text is to get
ExpectedReading(text, furigana, p) ==
  IF furigana = Undefined \/ ~IsKanji(text[p]) THEN Undefined
  ELSE LET i == IdeographRank(text, p)
           readings == Split(furigana[1], COMMA)
       IN  IF Len(readings) = 1
             THEN IF i = 1 THEN Some(furigana[1]) ELSE Undefined
           ELSE IF i <= Len(readings) /\ Trim(readings[i]) # <<>>
             THEN Some(Trim(readings[i]))
           ELSE Undefined

ExpectedPair(dirs, files, k) ==
  <<dirs[((k - 1) \div Len(files)) + 1], files[((k - 1) % Len(files)) + 1]>>

\* one step of a resolution that waits for the response to the probe of pair c
\* for the segment at index i: was/is tell whether the resolution is (still)
\* waiting, c2 is the pair probed after the step
ResolutionStep(voiceFile, i, c, is, c2) ==
  LET dirs == StoryDirCandidates(textAppSettings)
      files == SortedFileCandidates(voiceFile)
      n == Len(dirs) * Len(files)
  IN  /\ c \in 1..n
      /\ \/ is /\ c2 = c
         \/ is /\ c2 = c + 1 /\ c < n /\ audioPathCacheRef' = audioPathCacheRef
         \/ ~is /\ c = n /\ audioPathCacheRef' = audioPathCacheRef
         \/ ~is /\ [index |-> i, path |-> ExpectedPair(dirs, files, c)] \in audioPathCacheRef'

\* C12: a resolution probes the pairs (directory, file) one at a time, directories
\* outermost and the files in their order within each directory, starting with the
\* first pair; a rejected pair is followed by the next one, the accepted pair is the
\* path returned (and cached), and the resolution ends without a path only when
\* the last pair was rejected
C12_ProbesInOrderFirstAcceptedWins ==
  [][/\ \A a \in DOMAIN attempts' :
         LET new == attempts'[a] IN
         IF a \in DOMAIN attempts /\ attempts[a].pc = "probe"
           THEN ResolutionStep(attempts[a].voiceFile, attempts[a].seg, attempts[a].cand,
                               new.pc = "probe", new.cand)
           ELSE new.pc = "probe" => new.cand = 1
      /\ IF preload.pc = "probe"
           THEN \/ preload'.disposed
                \/ ResolutionStep(segments[preload.i + 1].voiceFile, preload.i, preload.cand,
                                  preload'.pc = "probe" /\ preload'.i = preload.i,
                                  preload'.cand)
           ELSE preload'.pc = "probe" => preload'.cand = 1]_vars

\* a resolution over two directories and two or more files returned the second
\* file of the second directory: the pairs before it were probed and rejected
C12_ResolvedInSecondDirectory ==
  \E e \in audioPathCacheRef :
    LET dirs == StoryDirCandidates(textAppSettings)
        files == SortedFileCandidates(segments[e.index + 1].voiceFile)
    IN  /\ Len(dirs) = 2 /\ Len(files) >= 2
        /\ e.path = <<dirs[2], files[2]>>

\* response.ok || response.status === 206
Successful(r) == r.status \in {"200", "206"}

\* whether the probe that receives r returns the candidate
Accepted(r) == ProbeAccepts(ProbeOutcomeOf(r), audioContext)

LastDot(s) ==
  LET dots == {k \in 1..Len(s) : s[k] = DOT}
  IN  IF dots = {} THEN 0 ELSE CHOOSE k \in dots : \A j \in dots : j <= k

\* s ends with a dot followed by one or more characters other than slashes
CarriesExtension(s) ==
  /\ LastDot(s) \in 1..(Len(s) - 1)
  /\ \A j \in (LastDot(s) + 1)..Len(s) : s[j] # SLASH

WithoutExtension(s) == IF CarriesExtension(s) THEN SubSeq(s, 1, LastDot(s) - 1) ELSE s

\* s without its leading digits and the underscore that follows them, if any
WithoutNumericPrefix(s) ==
  LET n == CHOOSE n \in 0..Len(s) :
             /\ \A k \in 1..n : IsDigit(s[k])
             /\ n < Len(s) => ~IsDigit(s[n + 1])
      m == IF n > 0 /\ n < Len(s) /\ s[n + 1] = "_" THEN n + 1 ELSE n
  IN  SubSeq(s, m + 1, Len(s))

ExpectedDirs(story) ==
  LET base == WithoutExtension(story)
      stripped == WithoutNumericPrefix(base)
  IN  IF base = <<>> THEN <<>>
      ELSE IF stripped = <<>> \/ stripped = base THEN <<base>>
      ELSE <<base, stripped>>

NoDuplicates(list) == \A j, k \in 1..Len(list) : list[j] = list[k] => j = k

\* C14: the directory candidates are the story's file name without extension
\* followed by the same name without its leading numeric prefix (digits and an
\* optional underscore), empty names and the duplicate left out; the file
\* candidates start with audioRef itself when it carries an extension and are
\* audioRef.wav, audioRef.mp3 otherwise; neither list nor the list of pairs holds
\* a duplicate
C14_CandidateDerivation ==
  Loaded =>
    \A k \in 1..Len(segments) :
      LET audioRef == segments[k].voiceFile
          dirs == StoryDirCandidates(textAppSettings)
          files == SortedFileCandidates(audioRef)
      IN  audioRef # <<>> =>
            /\ dirs = ExpectedDirs(textAppSettings.storyFilename)
            /\ IF CarriesExtension(audioRef)
                 THEN files # <<>> /\ files[1] = audioRef
                 ELSE files = <<audioRef \o WAV, audioRef \o MP3>>
            /\ NoDuplicates(dirs) /\ NoDuplicates(files)
            /\ NoDuplicates(AudioPathCandidates(audioRef, textAppSettings))

\* a resolution ran for a story with a numeric prefix (two directories) and an
\* audioRef that carries a supported extension already
C14_ResolvedPrefixedStoryAndExtension ==
  /\ Loaded /\ audioPathCacheRef # {}
  /\ Len(StoryDirCandidates(textAppSettings)) = 2
  /\ segments[1].voiceFile = <<"a">> \o WAV
  /\ SortedFileCandidates(segments[1].voiceFile) = <<<<"a">> \o WAV, <<"a">> \o MP3>>

\* the step sends a probe request for the segment at index i: the preload or a
\* play attempt starts to wait for the response to a candidate of that segment
PreloadProbeRequest(i) ==
  /\ preload'.pc = "probe" /\ preload'.i = i
  /\ <<preload'.pc, preload'.i, preload'.cand>> # <<preload.pc, preload.i, preload.cand>>

PlayProbeRequest(i) ==
  \E a \in DOMAIN attempts' :
    /\ attempts'[a].pc = "probe" /\ attempts'[a].seg = i
    /\ a \in DOMAIN attempts =>
         <<attempts'[a].pc, attempts'[a].cand>> # <<attempts[a].pc, attempts[a].cand>>

\* C15: while the path cache holds an entry for index i, no probe request for
\* segment i is sent, neither by the preload nor by a play attempt
C15_NoProbeOnceCached ==
  [][\A e \in audioPathCacheRef :
       Mounted => ~PreloadProbeRequest(e.index) /\ ~PlayProbeRequest(e.index)]_vars

C17_ChangeInvalidatesPreloadAndClearsCache ==
  [][/\ (~Mounted /\ Mounted') \/ segments' # segments => audioPathCacheRef' = {}
     /\ preload.disposed /\ preload'.disposed =>
          /\ preload'.pc = "probe" => preload.pc = "probe" /\ preload'.i = preload.i
          /\ preload' # preload => audioPathCacheRef' = audioPathCacheRef]_vars

\* the preload effect was cleaned up while its loop had a later voiced segment
\* still to resolve, and the loop has ended
C17_DisposedLoopEndedEarly ==
  /\ preload.disposed /\ preload.pc = "done"
  /\ \E k \in 2..Len(segments) :
       /\ segments[k].voiceFile # <<>>
       /\ segments[1].voiceFile # <<>>
       /\ ~CacheHas(audioPathCacheRef, k - 1)

\* the step in which the play attempt a, or the preload, learns the path of its
\* segment and goes on with it: the path
GotPath(a) ==
  /\ a \in DOMAIN attempts /\ attempts[a].pc \in {"unlock", "probe"}
  /\ attempts'[a].pc \in {"load", "playing", "element", "failed"}

PreloadGotPath ==
  /\ preload.pc = "probe" /\ ~preload'.disposed /\ preload' # preload
  /\ audioPathCacheRef' # audioPathCacheRef
  /\ CacheHas(audioPathCacheRef', preload.i)

\* the step sends the fetch of loadAudioBuffer for the path
LoadRequested(before, after, path) ==
  /\ after.pc = "load" /\ after.path = path
  /\ before.pc # "load"

\* what loadAudioBuffer does with the cache and how it ends, for every outcome
\* of its requests: the cache gains the path exactly when fetch and decode
\* succeed, loses nothing, and a failed decode throws the EncodingError
LoadResult ==
  \A path \in {e.path : e \in audioPathCacheRef}, outcome \in LoadOutcomes :
    LET loaded == LoadAudioBuffer(audioBufferCache, path, outcome) IN
    /\ loaded.bufs = IF outcome = "ok" THEN audioBufferCache \cup {path}
                                        ELSE audioBufferCache
    /\ loaded.error = "none" <=> outcome = "ok"
    /\ loaded.error = "EncodingError" <=> outcome = "decode-error"

\* the steps of the play attempts around loadAudioBuffer: called with an
\* AudioContext only, it sends its request exactly on a cache miss; when it
\* settles the source starts on success and the cache is left alone on failure
PlayLoads ==
  \A a \in DOMAIN attempts :
    LET path == CacheGet(audioPathCacheRef', attempts[a].seg) IN
    /\ GotPath(a) /\ attempts'[a].pc \notin {"element", "failed"} =>
         (path \notin audioBufferCache <=> LoadRequested(attempts[a], attempts'[a], path))
    /\ attempts[a].pc = "load" /\ attempts'[a].pc # "load" =>
         IF attempts'[a].pc = "playing"
           THEN audioBufferCache' = audioBufferCache \cup {attempts[a].path}
           ELSE audioBufferCache' = audioBufferCache

\* C18: loadAudioBuffer sends no request when the shared cache holds the path;
\* on a miss it fetches and decodes provided an AudioContext exists (without one
\* it fails at once, no request sent); afterwards the cache holds the path if and
\* only if fetch and decode both succeeded, and a failed decode throws the
\* EncodingError and leaves the cache unchanged
C18_LoadBufferHitsCacheOrFetches ==
  [][/\ LoadResult
     /\ PlayLoads
     /\ PreloadGotPath =>
          LET path == CacheGet(audioPathCacheRef', preload.i) IN
          (path \notin audioBufferCache /\ audioContext # "null")
            <=> LoadRequested(preload, preload', path)
     /\ preload.pc = "load" /\ preload'.pc # "load" =>
          audioBufferCache' \in {audioBufferCache, audioBufferCache \cup {preload.path}}]_vars

\* C18 as stated: on every cache miss loadAudioBuffer fetches and decodes
C18_LoadBufferFetchesOnEveryMiss ==
  [][/\ LoadResult
     /\ PlayLoads
     /\ PreloadGotPath =>
          LET path == CacheGet(audioPathCacheRef', preload.i) IN
          path \notin audioBufferCache <=> LoadRequested(preload, preload', path)
     /\ preload.pc = "load" /\ preload'.pc # "load" =>
          audioBufferCache' \in {audioBufferCache, audioBufferCache \cup {preload.path}}]_vars

\* the load of the session's only play attempt failed (the AudioContext exists,
\* yet the fallback element plays) and the cache does not hold its path
C18_LoadFailedCacheUnchanged ==
  /\ Len(attempts) = 1 /\ attempts[1].pc = "element"
  /\ isAudioContextInitialized /\ audioContext # "null"
  /\ CacheHas(audioPathCacheRef, attempts[1].seg)
  /\ CacheGet(audioPathCacheRef, attempts[1].seg) \notin audioBufferCache

\* the play attempt a before the step; an attempt the step creates counts as
\* waiting for its unlock before it
Before(a) ==
  IF a \in DOMAIN attempts THEN attempts[a].pc ELSE "unlock"

Buffered == {"load", "playing", "stopped"}
Fallback == {"element", "failed"}

\* C19: a play attempt that has its path takes the buffered way (load, then the
\* buffer source) when an AudioContext exists and the fallback element otherwise;
\* a load that fails is followed by the fallback element, a load that succeeds by
\* the source; an attempt that started its source never creates the element
\* and one that created the element never starts a source; and the step in which
\* the element fails to play changes nothing of the session but the attempt
C19_ExactlyOnePlaybackMechanism ==
  [][\A a \in DOMAIN attempts' :
       LET pc == attempts'[a].pc
           engine == isAudioContextInitialized' /\ audioContext' # "null"
       IN  /\ Before(a) \in {"unlock", "probe"} /\ pc \in Buffered \cup Fallback =>
                IF engine THEN pc \in {"load", "playing"} ELSE pc \in Fallback
           /\ Before(a) = "load" =>
                pc \in {"load", "playing"} \cup Fallback
           /\ Before(a) \in {"playing", "stopped"} => pc \in {"playing", "stopped", "done"}
           /\ Before(a) \in Fallback => pc \in {Before(a), "done"}
           /\ Before(a) = "done" => pc = "done"
           /\ pc = "failed" /\ Before(a) \in {"probe", "load"} =>
                UNCHANGED <<currentApp, segments, currentSegment, isLoading, errorMessage>>]_vars

\* the load of the only play attempt failed and its fallback element failed to
\* play as well; the session shows the segment with no error
C19_FallbackFailedSilently ==
  /\ Mounted /\ Len(attempts) = 1 /\ attempts[1].pc = "failed"
  /\ isAudioContextInitialized /\ audioContext # "null"
  /\ errorMessage = NoError /\ ~isLoading
  /\ currentSegment = attempts[1].seg

\* the indexes from n on of the segments of segs that name a voice file
VoicedFrom(segs, n) == {k \in n..(Len(segs) - 1) : segs[k + 1].voiceFile # <<>>}

\* the preload is at the segment the loop has to attempt next when it comes
\* from index n: the first voiced one, or the end when there is none
PreloadAtNext(after, segs, n) ==
  IF VoicedFrom(segs, n) = {} THEN after.pc = "done"
  ELSE after.pc = "probe" /\ after.cand = 1 /\ after.i = Least(VoicedFrom(segs, n))

PreloadRunning == preload.pc \in {"unlock", "probe", "load"}

\* one step seen from the preload loop, while it is not disposed
PreloadOrder ==
  /\ segments' # segments /\ Mounted' /\ textAppSettings'.voiceMode = "voice-on" =>
       \/ preload'.pc = "unlock"
       \/ PreloadAtNext(preload', segments', 0)
  /\ PreloadRunning /\ ~preload'.disposed /\ segments' = segments =>
       \/ preload'.pc = preload.pc /\ preload'.i = preload.i
       \/ preload.pc = "probe" /\ preload'.pc = "load" /\ preload'.i = preload.i
       \/ PreloadAtNext(preload', segments,
                        IF preload.pc = "unlock" THEN 0 ELSE preload.i + 1)

AwaitsUnlock(p) == ProcOf(Audio, p).pc = "unlock"

\* C21: a call of enableAudio that has not completed yet can still be completed
\* by its own 5 second timer, whatever becomes of resume() or of the primer
\* (they may never deliver an event); and a timer that has fired leaves the
\* audio enabled.
C21_PendingUnlockHasLiveTimer ==
  \A p \in Procs : AwaitsUnlock(p) => ProcOf(Audio, p).unTimer /\ ~isAudioEnabled

\* ------------------------------------------------------------------- C22
\* the play attempts launched by the step: each one calls enableAudio()
LaunchedAttempts == (Len(attempts) + 1)..Len(attempts')

\* the commit of the load runs the preload effect, which calls enableAudio() when
\* it gets past its guard
PreloadLaunched == textFetch = "pending" /\ textFetch' = "done" /\ preload'.pc # "none"

\* the call of enableAudio by p returned a resolved promise: nothing is pending for
\* it and its caller is already past the await
CompletedImmediately(p) ==
  LET call == ProcOf(Audio, p)' IN
  call.unEvt = "none" /\ ~call.unTimer /\ call.pc # "unlock"

\* C22: once audio is enabled it stays enabled, and every later call of
\* enableAudio completes at once: no resume(), no primer, no timer, and the audio
\* context is neither created nor changed by the call.
C22_EnableIdempotent ==
  [][isAudioEnabled =>
       /\ isAudioEnabled'
       /\ \A a \in LaunchedAttempts : CompletedImmediately(a)
       /\ PreloadLaunched => CompletedImmediately(0)
       /\ (LaunchedAttempts # {} \/ PreloadLaunched) =>
            /\ audioContext' = audioContext
            /\ isAudioContextInitialized' = isAudioContextInitialized]_vars

\* a later session whose preload and first play attempt are both at their first
\* probe, with a buffer decoded by an earlier session: that session had called
\* enableAudio and left no timer pending, so audio was enabled before this
\* session's two calls, and both are past their await
C22_CallsAfterEnabledCompleted ==
  /\ isAudioEnabled /\ audioBufferCache # {}
  /\ Len(attempts) = 1
  /\ attempts[1].pc = "probe" /\ attempts[1].cand = 1 /\ attempts[1].unEvt = "none"
  /\ preload.pc = "probe" /\ preload.i = 0 /\ preload.cand = 1 /\ preload.unEvt = "none"

\* ------------------------------------------------------------------- C24
\* the step calls enableAudio() while audio is not enabled, so initAudioContext runs
EnableCalled == ~isAudioEnabled /\ (LaunchedAttempts # {} \/ PreloadLaunched)

\* C24: the AudioContext is a module-level singleton created lazily.  There is
\* none before the first call of enableAudio; one is created only by a call of
\* enableAudio; once there is one, the handle and its initialised flag are never
\* reset and no call replaces it: the only change it ever sees is its own
\* resume(), from suspended to running, when that promise fulfils.
C24_AudioContextSingleton ==
  [][/\ (audioContext = "null") = ~isAudioContextInitialized
     /\ (audioContext = "null" /\ audioContext' # "null") => EnableCalled
     /\ audioContext # "null" =>
          /\ isAudioContextInitialized'
          /\ audioContext' \in {audioContext, "running"}
          /\ audioContext' # audioContext =>
               \E p \in Procs : ProcOf(Audio, p).unEvt = "resume"
                                 /\ ProcOf(Audio, p)'.unEvt = "none"]_vars

\* two calls of enableAudio, the second made while the first is pending, wait for
\* the resume() of the same suspended AudioContext
C24_SecondCallSharesContext ==
  /\ audioContext = "suspended"
  /\ Len(attempts) >= 2
  /\ attempts[1].unEvt = "resume" /\ attempts[2].unEvt = "resume"

\* ------------------------------------------------------------------- C25
\* C25: when TextDisplay signals completion, App shows the completion screen if
\* and only if the voice mode is full-text and an elapsed time was passed (the
\* Next button of the full-text mode passes one, handleNextSegment passes none),
\* and stores that time; otherwise it shows the mode selection.  So the
\* completion screen is only ever shown with full-text settings, and TextDisplay
\* is only ever rendered with settings that are not null.
C25_CompletionRouting ==
  /\ [](currentApp = "completion" => textAppSettings.voiceMode = "full-text")
  /\ [](Mounted => textAppSettings # NoSettings)
  /\ [][CompletionSignal =>
          /\ (currentApp' = "completion")
               = (textAppSettings.voiceMode = "full-text" /\ FullTextShown)
          /\ (currentApp' = "mode_selection")
               = ~(textAppSettings.voiceMode = "full-text" /\ FullTextShown)
          /\ UNCHANGED textAppSettings]_vars

\* the completion screen after a full-text session that measured a time
C25_CompletionScreenAfterFullText ==
  /\ currentApp = "completion"
  /\ textAppSettings.voiceMode = "full-text"
  /\ elapsedTime = 1

\* ------------------------------------------------------------------- C26
\* C26: after a load that left no error message, and after any advances, the
\* current index is an index of the segment sequence and the segment there is
\* not a line break.
C26_CurrentIndexOnSegment ==
  (Loaded /\ errorMessage = NoError) =>
     /\ currentSegment < Len(segments)
     /\ ~segments[currentSegment + 1].isLineBreak

\* ------------------------------------------------------------------- C27
\* C27: while the session is on screen, a buffer source that is still playing is
\* the one currentSourceRef refers to, so that the next transition stops it.
C27_PlayingSourceIsCurrent ==
  Mounted => \A a \in Attempts : attempts[a].pc = "playing" => currentSourceRef = a

\* the 'ended' event of the source of attempt a is handled in this step
EndedCallback(a) ==
  attempts[a].pc \in {"playing", "stopped"} /\ attempts'[a].pc = "done"

\* C27, the callback: the onended of a source that was stopped or has finished
\* leaves the handle alone when it refers to a source started after it.
C27_EndedCallbackKeepsLaterHandle ==
  [][\A a \in Attempts :
       (EndedCallback(a) /\ currentSourceRef > a) => currentSourceRef' = currentSourceRef]_vars

\* ------------------------------------------------------------------- C28
\* the audio of play attempt a starts in this step: source.start(0) of its
\* buffer source, or play() of its fallback element
StartsAudio(a) ==
  /\ attempts'[a].pc \in {"playing", "element"}
  /\ a \in Attempts => attempts[a].pc \notin {"playing", "element"}

\* C28: audio that starts is the audio of the segment at the current index: an
\* attempt launched for index i starts no audio once the index has moved on.
C28_StartedAudioIsOfCurrentSegment ==
  [][\A a \in 1..Len(attempts') :
       StartsAudio(a) => attempts'[a].seg = currentSegment']_vars

\* ------------------------------------------------------------------- C30
\* the indices of the segments that are not line breaks
NonLineBreaks(segs) == {j \in 0..(Len(segs) - 1) : ~segs[j + 1].isLineBreak}

\* the number of calls of handleNextSegment, from index cur on, up to and
\* including the one that calls onComplete
RECURSIVE AdvancesToComplete(_, _)
AdvancesToComplete(segs, cur) ==
  IF NextSegment(segs, cur) < Len(segs)
    THEN 1 + AdvancesToComplete(segs, NextSegment(segs, cur))
    ELSE 1

InSession == Loaded /\ errorMessage = NoError

\* C30 as stated: in a loaded session, from any state, a number of advances no
\* greater than the number of segments that are not line breaks leads to the
\* completion signal.
C30_AdvancesBoundedBySegments ==
  InSession =>
    AdvancesToComplete(segments, currentSegment) <= Cardinality(NonLineBreaks(segments))

\* C30, the part that holds: in a loaded session the current index never decreases and
\* strictly increases with every advance that does not signal completion; the
\* advances that lead to the completion signal are at most the segments that are
\* not line breaks, or a single advance when every segment is a line break.
C30_IndexIncreasesToCompletion ==
  /\ [][InSession =>
          /\ currentSegment' >= currentSegment
          /\ ~CompletionSignal => currentSegment' > currentSegment]_vars
  /\ [](InSession =>
          AdvancesToComplete(segments, currentSegment)
            <= IF NonLineBreaks(segments) = {} THEN 1
               ELSE Cardinality(NonLineBreaks(segments)))

\* the session advanced from the first segment across a line break
C30_AdvancedAcrossLineBreak ==
  /\ InSession
  /\ currentSegment >= 2
  /\ ~segments[1].isLineBreak
  /\ segments[currentSegment].isLineBreak

\* ------------------------------------------------------------------- C23
\* TextDisplay is on screen with settings whose voice mode is not voice-on
SilentMode == Mounted /\ textAppSettings.voiceMode # "voice-on"

\* the preload (p = 0) or the play attempt p takes a step of its work: it is
\* launched, or it goes on to an unlock, a probe, a load or a start of playback
AudioWork(p) ==
  LET after == ProcOf(Audio, p)' IN
  /\ after.pc \in {"unlock", "probe", "load", "playing", "element", "failed"}
  /\ \/ p > Len(attempts)
     \/ <<ProcOf(Audio, p).pc, ProcOf(Audio, p).cand>> # <<after.pc, after.cand>>

\* C23: while the voice mode is voice-off or full-text no unlock, probe, load or
\* start of playback is performed and the path cache stays empty, and no buffer
\* source is left playing once such a mode is entered.
C23_InertOutsideVoiceOn ==
  [][/\ (SilentMode /\ SilentMode') =>
          /\ \A p \in 0..Len(attempts') : ~AudioWork(p)
          /\ audioPathCacheRef' = {}
     /\ SilentMode' => \A a \in 1..Len(attempts') : attempts'[a].pc # "playing"]_vars

\* ------------------------------------------------------------------- C29
\* the response (or the failure) of the fetch of an earlier run of the load
\* effect is handled in this step
EarlierResponse == earlierFetches' < earlierFetches

\* C29: the late response of the fetch started for earlier settings replaces
\* neither the segments nor the current index nor the loading and error state
\* that belong to the latest settings.
C29_LateResponseDiscarded ==
  [][EarlierResponse =>
       UNCHANGED <<segments, currentSegment, isLoading, errorMessage>>]_vars

====
